---- MODULE Spec2Model ----
(***************************************************************************)
(* Verification model of darkscan_v2_cmd.py: the scan coordinator          *)
(* (run_batch_scan / run_tamper_detection), its worker tasks, the progress *)
(* monitor and the termination-signal handler (handle_termination).        *)
(*                                                                         *)
(* Threads.  Python runs a signal handler on the main thread, between two  *)
(* bytecodes of whatever the main thread is doing; the interrupted frame   *)
(* stays suspended until the handler returns, and handle_termination never *)
(* returns (it ends in os._exit).  The main thread is therefore modelled   *)
(* as the frame of the batch function (mainPc) below a stack of handler    *)
(* frames (hstack); only the top frame runs.  state_lock is a              *)
(* threading.Lock (not re-entrant): a frame that waits for it while a      *)
(* lower frame of the same thread holds it waits forever.                  *)
(* Worker and progress threads take state_lock only for short sections     *)
(* without blocking calls; each such section is one atomic step guarded by *)
(* the lock being free.                                                    *)
(***************************************************************************)
EXTENDS Integers, Sequences, FiniteSets, TLC

\* ---------------------------------------------------------------- bounds
\* URLs submitted to batches over the lifetime of the process
MaxUrls == 2
\* URLs of one batch
MaxBatch == 1
\* links extracted from one target page in the coordinator model
MaxLinks == 1
\* termination signals delivered over the lifetime of the process
MaxSignals == 2

Urls == 1..MaxBatch
Links == 1..MaxLinks

VARIABLES
    is_terminated,   \* global_state["is_terminated"]
    current_url,     \* global_state["current_url"] (0 = None)
    processed_urls,  \* global_state["processed_urls"]
    total_urls,      \* global_state["total_urls"]
    results,         \* global_state["results"]
    tamper_results,  \* global_state["tamper_results"]
    active_threads,  \* global_state["active_threads"]
    state_lock,      \* "free" or "main" (held by a frame of the main thread)
    mainPc,          \* position of the main thread in the batch function
    batch,           \* the running batch: function, flag argument, number of URLs
    batchNo,         \* number of batches started so far
    futures,         \* tasks submitted to the batch's ThreadPoolExecutor
    children,        \* analyze_child_link futures of each run_single_scan
    hstack,          \* handle_termination frames on the main thread
    progressPc,      \* progress_monitor thread
    sink,            \* calls of save_scan_results / save_tamper_results since
                     \* the last batch started
    built,           \* ClassifiedLink records built since the last batch started
    signals,         \* termination signals delivered so far
    sigInBatch,      \* a signal was delivered while run_batch_scan was active
    urlsUsed,        \* URLs submitted so far
    exit_code,       \* -1 while the process runs, else the os._exit status
    \* --- the crawl of one target in detail (SpecCrawl)
    max_depth,       \* argument of run_single_scan
    has_scheme,      \* the target string starts with http:// or https://
    stacks,          \* call stack of each thread of the crawl
    probeRes,        \* what the two probe threads of complete_and_check_url returned
    linkFut,         \* futures of the link pool of run_single_scan
    saw,             \* per thread: its current task has read is_terminated as set
    late,            \* a request was issued by a task that had read the flag as set
    fetched,         \* depths of the pages requested from the network
    \* --- the links of one page handed on to the next level (SpecFanout)
    fan,
    \* --- the baseline store and the functions without shared state (SpecFn)
    store,           \* names of the files in BASE_CONTENTS_DIR
    calc             \* the last function applied: its name, arguments and value

vars == <<is_terminated, current_url, processed_urls, total_urls, results,
          tamper_results, active_threads, state_lock, mainPc, batch, batchNo,
          futures, children, hstack, progressPc, sink, built, signals,
          sigInBatch, urlsUsed, exit_code,
          max_depth, has_scheme, stacks, probeRes, linkFut, saw, late, fetched,
          fan, store, calc>>

crawlVars ==
    <<max_depth, has_scheme, stacks, probeRes, linkFut, saw, late, fetched, fan,
      store, calc>>

\* no function has been applied
NoCalc == [fn |-> "none", stored |-> {}]

\* no page is being handed on
NoFan ==
    [pc |-> "idle", depth |-> 0, nl |-> 0, handed |-> 0, taken |-> 0, started |-> 0,
     workers |-> 0, running |-> 0]

\* ------------------------------------------------------------- records
TaskFns == {"run_single_scan", "process_tamper_parent_url", "detect_child_tampering"}
FutureIds == TaskFns \X Urls

NoFuture == [pc |-> "none", result |-> {}, yielded |-> FALSE, links |-> 0, local |-> {}]
NoChild == [pc |-> "none", result |-> {}, collected |-> FALSE]

\* the record run_single_scan builds for a target whose probe gave no best_url
Sentinel(u) == [url |-> u, link |-> 0, depth |-> 0, status |-> "unreachable"]

\* the record analyze_child_link builds for link i of target u
ChildRecord(u, i) == [url |-> u, link |-> i, depth |-> 1, status |-> "ok"]

\* the verdict detect_tampering returns for a page with a baseline
Verdict(u, i) == [url |-> u, link |-> i, tamper_type |-> "compared"]

\* the record the tamper tasks build for a page that cannot be reached
Unreachable(u, i) == [url |-> u, link |-> i, tamper_type |-> "unreachable"]

NoBatch == [fn |-> "none", flag |-> FALSE, urls |-> 0, cur |-> <<"none", 0>>, err |-> FALSE]

Running == exit_code = -1

\* the frame of the batch function runs only when no handler frame is above it
MainRuns == Running /\ Len(hstack) = 0

\* tasks that have started and not yet returned
InFlight ==
    Cardinality({f \in FutureIds : futures[f].pc \notin {"none", "queued", "done"}})
    + Cardinality({c \in Urls \X Links : children[c].pc = "running"})

Init ==
    /\ is_terminated = FALSE
    /\ current_url = 0
    /\ processed_urls = 0
    /\ total_urls = 0
    /\ results = {}
    /\ tamper_results = {}
    /\ active_threads = 0
    /\ state_lock = "free"
    /\ mainPc = "idle"
    /\ batch = NoBatch
    /\ batchNo = 0
    /\ futures = [f \in FutureIds |-> NoFuture]
    /\ children = [c \in Urls \X Links |-> NoChild]
    /\ hstack = <<>>
    /\ progressPc = "none"
    /\ sink = <<>>
    /\ built = {}
    /\ signals = 0
    /\ sigInBatch = FALSE
    /\ urlsUsed = 0
    /\ exit_code = -1
    /\ max_depth = 1
    /\ has_scheme = TRUE
    /\ stacks = <<>>
    /\ probeRes = <<>>
    /\ linkFut = <<>>
    /\ saw = <<>>
    /\ late = FALSE
    /\ fetched = {}
    /\ fan = NoFan
    /\ store = {}
    /\ calc = NoCalc

\* ------------------------------------------------ coordinator (main thread)
\* the futures one batch submits: run_batch_scan one run_single_scan per URL,
\* run_tamper_detection one process_tamper_parent_url per URL and, with
\* include_children, one detect_child_tampering per URL
Submitted(fn, flag, n) ==
    IF fn = "run_batch_scan"
    THEN {"run_single_scan"} \X (1..n)
    ELSE ({"process_tamper_parent_url"} \X (1..n))
         \cup (IF flag THEN {"detect_child_tampering"} \X (1..n) ELSE {})

\* run_batch_scan, "with state_lock:" that resets the state (the lock is held
\* when the step ends); flag is perform_tamper_check
run_batch_scan(n, flag) ==
    /\ MainRuns /\ mainPc = "idle" /\ state_lock = "free"
    /\ urlsUsed + n <= MaxUrls
    /\ state_lock' = "main"
    /\ total_urls' = n
    /\ processed_urls' = 0
    /\ results' = {}
    /\ tamper_results' = IF flag THEN {} ELSE tamper_results
    /\ is_terminated' = FALSE
    /\ active_threads' = 0
    /\ batch' = [fn |-> "run_batch_scan", flag |-> flag, urls |-> n,
                 cur |-> <<"none", 0>>, err |-> FALSE]
    /\ batchNo' = batchNo + 1
    /\ urlsUsed' = urlsUsed + n
    /\ built' = {}
    /\ sink' = <<>>
    /\ mainPc' = "reset"
    /\ UNCHANGED crawlVars
    /\ UNCHANGED <<current_url, futures, children, hstack, progressPc,
                   signals, sigInBatch, exit_code>>

\* run_tamper_detection, "with state_lock:" that resets the state; flag is
\* include_children.  results is not touched.
run_tamper_detection(n, flag) ==
    /\ MainRuns /\ mainPc = "idle" /\ state_lock = "free"
    /\ urlsUsed + n <= MaxUrls
    /\ state_lock' = "main"
    /\ total_urls' = n
    /\ processed_urls' = 0
    /\ tamper_results' = {}
    /\ is_terminated' = FALSE
    /\ active_threads' = 0
    /\ batch' = [fn |-> "run_tamper_detection", flag |-> flag, urls |-> n,
                 cur |-> <<"none", 0>>, err |-> FALSE]
    /\ batchNo' = batchNo + 1
    /\ urlsUsed' = urlsUsed + n
    /\ built' = {}
    /\ sink' = <<>>
    /\ mainPc' = "reset"
    /\ UNCHANGED crawlVars
    /\ UNCHANGED <<current_url, results, futures, children, hstack, progressPc,
                   signals, sigInBatch, exit_code>>

\* leaves the reset section, starts progress_monitor and submits the tasks
SubmitTasks ==
    /\ MainRuns /\ mainPc = "reset"
    /\ state_lock' = "free"
    /\ progressPc' = "poll"
    /\ futures' = [f \in FutureIds |->
                     IF f \in Submitted(batch.fn, batch.flag, batch.urls)
                     THEN [NoFuture EXCEPT !.pc = "queued"]
                     ELSE NoFuture]
    /\ children' = [c \in Urls \X Links |-> NoChild]
    /\ mainPc' = "wait"
    /\ UNCHANGED crawlVars
    /\ UNCHANGED <<is_terminated, current_url, processed_urls, total_urls,
                   results, tamper_results, active_threads, batch, batchNo,
                   hstack, sink, built, signals, sigInBatch, urlsUsed, exit_code>>

\* as_completed yields a finished future and the loop body enters
\* "with state_lock:" to test is_terminated
LoopCheck(f) ==
    /\ MainRuns /\ mainPc = "wait" /\ state_lock = "free"
    /\ futures[f].pc = "done" /\ ~futures[f].yielded
    /\ state_lock' = "main"
    /\ futures' = [futures EXCEPT ![f].yielded = TRUE]
    /\ batch' = [batch EXCEPT !.cur = f]
    /\ mainPc' = "check"
    /\ UNCHANGED crawlVars
    /\ UNCHANGED <<is_terminated, current_url, processed_urls, total_urls,
                   results, tamper_results, active_threads, batchNo, children,
                   hstack, progressPc, sink, built, signals, sigInBatch,
                   urlsUsed, exit_code>>

\* the rest of the loop body.  run_batch_scan only calls future.result();
\* run_tamper_detection adds the result to tamper_results and, in its
\* finally clause, increments processed_urls.
LoopBody ==
    /\ MainRuns /\ mainPc = "check"
    /\ state_lock' = "free"
    /\ IF is_terminated
       THEN \* executor.shutdown(wait=False, cancel_futures=True); break
            /\ futures' = [f \in FutureIds |->
                             IF futures[f].pc = "queued"
                             THEN [futures[f] EXCEPT !.pc = "done"]
                             ELSE futures[f]]
            /\ mainPc' = "exit_with"
            /\ UNCHANGED <<tamper_results, processed_urls>>
       ELSE /\ mainPc' = "wait"
            /\ UNCHANGED futures
            /\ IF batch.fn = "run_tamper_detection"
               THEN /\ tamper_results' = tamper_results \cup futures[batch.cur].result
                    /\ processed_urls' = processed_urls + 1
               ELSE UNCHANGED <<tamper_results, processed_urls>>
    /\ UNCHANGED crawlVars
    /\ UNCHANGED <<is_terminated, current_url, total_urls, results,
                   active_threads, batch, batchNo, children, hstack, progressPc,
                   sink, built, signals, sigInBatch, urlsUsed, exit_code>>

\* as_completed is exhausted: the loop ends and the with block is left
LoopEnd ==
    /\ MainRuns /\ mainPc = "wait"
    /\ \A f \in FutureIds : futures[f].pc # "none" => futures[f].yielded
    /\ mainPc' = "exit_with"
    /\ UNCHANGED crawlVars
    /\ UNCHANGED <<is_terminated, current_url, processed_urls, total_urls,
                   results, tamper_results, active_threads, state_lock, batch,
                   batchNo, futures, children, hstack, progressPc, sink, built,
                   signals, sigInBatch, urlsUsed, exit_code>>

\* an exception escapes the loop (executor.submit, as_completed or log
\* raising): the with block is left with the exception pending
LoopRaises ==
    /\ MainRuns /\ mainPc = "wait"
    /\ batch' = [batch EXCEPT !.err = TRUE]
    /\ mainPc' = "exit_with"
    /\ UNCHANGED crawlVars
    /\ UNCHANGED <<is_terminated, current_url, processed_urls, total_urls,
                   results, tamper_results, active_threads, state_lock, batchNo,
                   futures, children, hstack, progressPc, sink, built, signals,
                   sigInBatch, urlsUsed, exit_code>>

\* ThreadPoolExecutor.__exit__ waits for every submitted task; a pending
\* exception then reaches "except Exception", which sets is_terminated
ExecutorExit ==
    /\ MainRuns /\ mainPc = "exit_with" /\ state_lock = "free"
    /\ \A f \in FutureIds : futures[f].pc \in {"none", "done"}
    /\ is_terminated' = IF batch.err THEN TRUE ELSE is_terminated
    /\ mainPc' = "join"
    /\ UNCHANGED crawlVars
    /\ UNCHANGED <<current_url, processed_urls, total_urls, results,
                   tamper_results, active_threads, state_lock, batch, batchNo,
                   futures, children, hstack, progressPc, sink, built, signals,
                   sigInBatch, urlsUsed, exit_code>>

\* progress_thread.join() returns and the end-of-batch "with state_lock:" is
\* entered
JoinProgress ==
    /\ MainRuns /\ mainPc = "join" /\ state_lock = "free"
    /\ progressPc = "done"
    /\ state_lock' = "main"
    /\ mainPc' = "flush"
    /\ UNCHANGED crawlVars
    /\ UNCHANGED <<is_terminated, current_url, processed_urls, total_urls,
                   results, tamper_results, active_threads, batch, batchNo,
                   futures, children, hstack, progressPc, sink, built, signals,
                   sigInBatch, urlsUsed, exit_code>>

\* the locks the main thread holds during a save: state_lock when it is
\* inside a "with state_lock:", save_lock inside the handler's
\* "with global_state["save_lock"]:"
LocksHeld(by) ==
    (IF state_lock = "main" THEN {"state_lock"} ELSE {})
    \cup (IF by = "handler" THEN {"save_lock"} ELSE {})

\* one call of save_scan_results / save_tamper_results as the sink sees it
SinkCall(op, by, content) ==
    [op |-> op, by |-> by, batch |-> batchNo, content |-> content,
     built |-> built, inflight |-> InFlight, locks |-> LocksHeld(by)]

\* first save of the end-of-batch flush, state_lock held: save_scan_results
\* in run_batch_scan, save_tamper_results in run_tamper_detection
FlushFirst ==
    /\ MainRuns /\ mainPc = "flush"
    /\ sink' = Append(sink,
                 IF batch.fn = "run_batch_scan"
                 THEN SinkCall("scan", "batch", results)
                 ELSE SinkCall("tamper", "batch", tamper_results))
    /\ mainPc' = "flushed"
    /\ UNCHANGED crawlVars
    /\ UNCHANGED <<is_terminated, current_url, processed_urls, total_urls,
                   results, tamper_results, active_threads, state_lock, batch,
                   batchNo, futures, children, hstack, progressPc, built,
                   signals, sigInBatch, urlsUsed, exit_code>>

\* FlushSecond with a clean-up that clears is_terminated before the return
FlushSecond_ClearsFlag ==
    /\ MainRuns /\ mainPc = "flushed"
    /\ sink' = IF batch.fn = "run_batch_scan" /\ batch.flag
               THEN Append(sink, SinkCall("tamper", "batch", tamper_results))
               ELSE sink
    /\ state_lock' = "free"
    /\ mainPc' = "return"
    /\ is_terminated' = FALSE
    /\ UNCHANGED crawlVars
    /\ UNCHANGED <<current_url, processed_urls, total_urls,
                   results, tamper_results, active_threads, batch, batchNo,
                   futures, children, hstack, progressPc, built, signals,
                   sigInBatch, urlsUsed, exit_code>>

\* run_batch_scan with perform_tamper_check saves tamper_results as well;
\* the end-of-batch section is left
FlushSecond ==
    /\ MainRuns /\ mainPc = "flushed"
    /\ sink' = IF batch.fn = "run_batch_scan" /\ batch.flag
               THEN Append(sink, SinkCall("tamper", "batch", tamper_results))
               ELSE sink
    /\ state_lock' = "free"
    /\ mainPc' = "return"
    /\ UNCHANGED crawlVars
    /\ UNCHANGED <<is_terminated, current_url, processed_urls, total_urls,
                   results, tamper_results, active_threads, batch, batchNo,
                   futures, children, hstack, progressPc, built, signals,
                   sigInBatch, urlsUsed, exit_code>>

\* the batch function returns to the menu loop; its executor, futures and
\* progress thread are gone
BatchReturn ==
    /\ MainRuns /\ mainPc = "return"
    /\ mainPc' = "idle"
    /\ batch' = NoBatch
    /\ futures' = [f \in FutureIds |-> NoFuture]
    /\ children' = [c \in Urls \X Links |-> NoChild]
    /\ progressPc' = "none"
    /\ UNCHANGED crawlVars
    /\ UNCHANGED <<is_terminated, current_url, processed_urls, total_urls,
                   results, tamper_results, active_threads, state_lock, batchNo,
                   hstack, sink, built, signals, sigInBatch, urlsUsed, exit_code>>

\* progress_monitor: reads the counters under state_lock and leaves its loop
\* once is_terminated or processed >= total (otherwise it sleeps and polls
\* again, which changes nothing)
progress_monitor ==
    /\ Running /\ progressPc = "poll" /\ state_lock = "free"
    /\ is_terminated \/ processed_urls >= total_urls
    /\ progressPc' = "done"
    /\ UNCHANGED crawlVars
    /\ UNCHANGED <<is_terminated, current_url, processed_urls, total_urls,
                   results, tamper_results, active_threads, state_lock, mainPc,
                   batch, batchNo, futures, children, hstack, sink, built,
                   signals, sigInBatch, urlsUsed, exit_code>>

\* ---------------------------------------------------------- worker tasks
\* config["default_threads"]: workers of the batch's ThreadPoolExecutor
default_threads == 5

Min(a, b) == IF a < b THEN a ELSE b
Max(a, b) == IF a > b THEN a ELSE b

\* variant: one worker for every three links, without the upper limit
link_threads_Unlimited(n) == Max(1, n \div 3)

\* run_single_scan: workers of the pool that analyses the links of one page
link_threads(n) ==
    Min(5, Max(1, n \div 3))

\* a worker of the batch pool is free
WorkerFree ==
    Cardinality({f \in FutureIds : futures[f].pc \notin {"none", "queued", "done"}})
        < default_threads

Scan(u) == <<"run_single_scan", u>>
Parent(u) == <<"process_tamper_parent_url", u>>
Child(u) == <<"detect_child_tampering", u>>

\* run_single_scan, entry: returns [] when is_terminated is set, else records
\* the URL as current_url
ScanEnter(u) ==
    /\ Running /\ futures[Scan(u)].pc = "queued" /\ WorkerFree
    /\ state_lock = "free"
    /\ IF is_terminated
       THEN /\ futures' = [futures EXCEPT ![Scan(u)].pc = "done"]
            /\ UNCHANGED current_url
       ELSE /\ futures' = [futures EXCEPT ![Scan(u)].pc = "probe"]
            /\ current_url' = u
    /\ UNCHANGED crawlVars
    /\ UNCHANGED <<is_terminated, processed_urls, total_urls, results,
                   tamper_results, active_threads, state_lock, mainPc, batch,
                   batchNo, children, hstack, progressPc, sink, built, signals,
                   sigInBatch, urlsUsed, exit_code>>

\* run_single_scan, probe of the target (complete_and_check_url).  The probe
\* fails when the site does not answer or when get_page_content finds
\* is_terminated set.  Without a best_url the sentinel is appended and the
\* task returns; otherwise the page may be compared with its baseline
\* (perform_tamper_check), its n links are extracted and one
\* analyze_child_link is submitted for each.
ScanProbe(u, reachable, n, baseline) ==
    /\ Running /\ futures[Scan(u)].pc = "probe"
    /\ state_lock = "free"
    /\ IF ~(reachable /\ ~is_terminated)
       THEN /\ results' = results \cup {Sentinel(u)}
            /\ processed_urls' = processed_urls + 1
            /\ current_url' = 0
            /\ built' = built \cup {Sentinel(u)}
            /\ futures' = [futures EXCEPT ![Scan(u)].pc = "done",
                                          ![Scan(u)].result = {Sentinel(u)}]
            /\ UNCHANGED <<tamper_results, children>>
       ELSE /\ tamper_results' = IF batch.flag /\ baseline
                                 THEN tamper_results \cup {Verdict(u, 0)}
                                 ELSE tamper_results
            /\ futures' = [futures EXCEPT ![Scan(u)].pc = "collect",
                                          ![Scan(u)].links = n]
            /\ children' = [c \in Urls \X Links |->
                              IF c[1] = u /\ c[2] <= n
                              THEN [NoChild EXCEPT !.pc = "queued"]
                              ELSE children[c]]
            /\ UNCHANGED <<results, processed_urls, current_url, built>>
    /\ UNCHANGED crawlVars
    /\ UNCHANGED <<is_terminated, total_urls, active_threads, state_lock, mainPc,
                   batch, batchNo, hstack, progressPc, sink, signals, sigInBatch,
                   urlsUsed, exit_code>>

\* run_single_scan raises between the probe and the link pool (the call of
\* detect_tampering and the creation of the pool are outside every try):
\* the exception is kept in the future, processed_urls is not incremented
\* and current_url not cleared
ScanRaises(u) ==
    /\ Running /\ futures[Scan(u)].pc = "probe"
    /\ futures' = [futures EXCEPT ![Scan(u)].pc = "done"]
    /\ UNCHANGED crawlVars
    /\ UNCHANGED <<is_terminated, current_url, processed_urls, total_urls,
                   results, tamper_results, active_threads, state_lock, mainPc,
                   batch, batchNo, children, hstack, progressPc, sink, built,
                   signals, sigInBatch, urlsUsed, exit_code>>

\* analyze_child_link, entry: returns [] when is_terminated is set, else
\* increments active_threads
ChildEnter(u, i) ==
    /\ Running /\ children[<<u, i>>].pc = "queued"
    /\ futures[Scan(u)].pc \in {"collect", "drain"}
    /\ Cardinality({j \in Links : children[<<u, j>>].pc = "running"})
          < link_threads(futures[Scan(u)].links)
    /\ state_lock = "free"
    /\ IF is_terminated
       THEN /\ children' = [children EXCEPT ![<<u, i>>].pc = "done"]
            /\ UNCHANGED active_threads
       ELSE /\ children' = [children EXCEPT ![<<u, i>>].pc = "running"]
            /\ active_threads' = active_threads + 1
    /\ UNCHANGED crawlVars
    /\ UNCHANGED <<is_terminated, current_url, processed_urls, total_urls,
                   results, tamper_results, state_lock, mainPc, batch, batchNo,
                   futures, hstack, progressPc, sink, built, signals, sigInBatch,
                   urlsUsed, exit_code>>

\* analyze_child_link, body and finally clause: probes the link; an
\* unreachable link gives [], a reachable one is compared with its baseline
\* (first level, perform_tamper_check) and gives its record;
\* active_threads is decremented
ChildFinish(u, i, reachable, baseline) ==
    /\ Running /\ children[<<u, i>>].pc = "running"
    /\ state_lock = "free"
    /\ IF reachable /\ ~is_terminated
       THEN /\ tamper_results' = IF batch.flag /\ baseline
                                 THEN tamper_results \cup {Verdict(u, i)}
                                 ELSE tamper_results
            /\ children' = [children EXCEPT ![<<u, i>>].pc = "done",
                                            ![<<u, i>>].result = {ChildRecord(u, i)}]
            /\ built' = built \cup {ChildRecord(u, i)}
       ELSE /\ children' = [children EXCEPT ![<<u, i>>].pc = "done"]
            /\ UNCHANGED <<tamper_results, built>>
    /\ active_threads' = active_threads - 1
    /\ UNCHANGED crawlVars
    /\ UNCHANGED <<is_terminated, current_url, processed_urls, total_urls,
                   results, state_lock, mainPc, batch, batchNo, futures, hstack,
                   progressPc, sink, signals, sigInBatch, urlsUsed, exit_code>>

\* run_single_scan, as_completed loop: under state_lock, leaves the loop when
\* is_terminated is set (executor.shutdown(wait=False)), else extends its
\* local list with the result of the finished analysis
ScanCollect(u, i) ==
    /\ Running /\ futures[Scan(u)].pc = "collect"
    /\ children[<<u, i>>].pc = "done" /\ ~children[<<u, i>>].collected
    /\ state_lock = "free"
    /\ IF is_terminated
       THEN /\ futures' = [futures EXCEPT ![Scan(u)].pc = "drain"]
            /\ UNCHANGED children
       ELSE /\ futures' = [futures EXCEPT ![Scan(u)].local =
                                 @ \cup children[<<u, i>>].result]
            /\ children' = [children EXCEPT ![<<u, i>>].collected = TRUE]
    /\ UNCHANGED crawlVars
    /\ UNCHANGED <<is_terminated, current_url, processed_urls, total_urls,
                   results, tamper_results, active_threads, state_lock, mainPc,
                   batch, batchNo, hstack, progressPc, sink, built, signals,
                   sigInBatch, urlsUsed, exit_code>>

\* run_single_scan, end: the link pool has been left (every analysis has
\* returned); under state_lock the local list is added to results and
\* processed_urls is incremented
ScanFinal(u) ==
    /\ Running /\ state_lock = "free"
    /\ \/ /\ futures[Scan(u)].pc = "collect"
          /\ \A j \in Links : children[<<u, j>>].pc # "none"
                                 => children[<<u, j>>].collected
       \/ /\ futures[Scan(u)].pc = "drain"
          /\ \A j \in Links : children[<<u, j>>].pc \in {"none", "done"}
    /\ processed_urls' = processed_urls + 1
    /\ current_url' = 0
    /\ results' = results \cup futures[Scan(u)].local
    /\ futures' = [futures EXCEPT ![Scan(u)].pc = "done",
                                  ![Scan(u)].result = futures[Scan(u)].local]
    /\ UNCHANGED crawlVars
    /\ UNCHANGED <<is_terminated, total_urls, tamper_results, active_threads,
                   state_lock, mainPc, batch, batchNo, children, hstack,
                   progressPc, sink, built, signals, sigInBatch, urlsUsed,
                   exit_code>>

\* process_tamper_parent_url: an unreachable target gives the "unreachable"
\* record; a reachable one gives the verdict of detect_tampering, which is
\* None without a baseline or when the page cannot be fetched again
process_tamper_parent_url(u, reachable, baseline, refetched) ==
    /\ Running /\ futures[Parent(u)].pc = "queued" /\ WorkerFree
    /\ state_lock = "free"
    /\ futures' = [futures EXCEPT
          ![Parent(u)].pc = "done",
          ![Parent(u)].result =
              IF ~(reachable /\ ~is_terminated) THEN {Unreachable(u, 0)}
              ELSE IF baseline /\ refetched THEN {Verdict(u, 0)}
              ELSE {}]
    /\ UNCHANGED crawlVars
    /\ UNCHANGED <<is_terminated, current_url, processed_urls, total_urls,
                   results, tamper_results, active_threads, state_lock, mainPc,
                   batch, batchNo, children, hstack, progressPc, sink, built,
                   signals, sigInBatch, urlsUsed, exit_code>>

\* detect_child_tampering: [] for an unreachable parent; else one record for
\* each first-level link that is unreachable or has a baseline, up to the
\* link at which is_terminated is found set
detect_child_tampering(u, reachable, outcome) ==
    /\ Running /\ futures[Child(u)].pc = "queued" /\ WorkerFree
    /\ state_lock = "free"
    /\ futures' = [futures EXCEPT
          ![Child(u)].pc = "done",
          ![Child(u)].result =
              IF ~(reachable /\ ~is_terminated) THEN {}
              ELSE {Unreachable(u, i) : i \in {j \in Links : outcome[j] = "unreachable"}}
                   \cup {Verdict(u, i) : i \in {j \in Links : outcome[j] = "verdict"}}]
    /\ UNCHANGED crawlVars
    /\ UNCHANGED <<is_terminated, current_url, processed_urls, total_urls,
                   results, tamper_results, active_threads, state_lock, mainPc,
                   batch, batchNo, children, hstack, progressPc, sink, built,
                   signals, sigInBatch, urlsUsed, exit_code>>

\* ------------------------------------------------------ handle_termination
Top == hstack[Len(hstack)]

SetTop(pc) == [hstack EXCEPT ![Len(hstack)] = pc]

\* the batch function is between its state reset and its return
BatchActive == mainPc # "idle"

\* the termination signal is delivered: the main thread enters
\* handle_termination on top of whatever it was doing
Signal ==
    /\ Running /\ signals < MaxSignals
    /\ signals' = signals + 1
    /\ hstack' = Append(hstack, "lock1")
    /\ sigInBatch' = (sigInBatch \/ (batch.fn = "run_batch_scan" /\ BatchActive))
    /\ UNCHANGED crawlVars
    /\ UNCHANGED <<is_terminated, current_url, processed_urls, total_urls,
                   results, tamper_results, active_threads, state_lock, mainPc,
                   batch, batchNo, futures, children, progressPc, sink, built,
                   urlsUsed, exit_code>>

\* first "with state_lock:": os._exit(1) when is_terminated is already set,
\* else sets it (the lock is still held when the step ends)
HandlerCheck ==
    /\ Running /\ Len(hstack) > 0 /\ Top = "lock1"
    /\ state_lock = "free"
    /\ state_lock' = "main"
    /\ IF is_terminated
       THEN /\ exit_code' = 1
            /\ UNCHANGED <<is_terminated, hstack>>
       ELSE /\ is_terminated' = TRUE
            /\ hstack' = SetTop("set")
            /\ UNCHANGED exit_code
    /\ UNCHANGED crawlVars
    /\ UNCHANGED <<current_url, processed_urls, total_urls, results,
                   tamper_results, active_threads, mainPc, batch, batchNo,
                   futures, children, progressPc, sink, built, signals,
                   sigInBatch, urlsUsed>>

\* leaves the first section
HandlerRelease ==
    /\ Running /\ Len(hstack) > 0 /\ Top = "set"
    /\ state_lock' = "free"
    /\ hstack' = SetTop("lock2")
    /\ UNCHANGED crawlVars
    /\ UNCHANGED <<is_terminated, current_url, processed_urls, total_urls,
                   results, tamper_results, active_threads, mainPc, batch,
                   batchNo, futures, children, progressPc, sink, built, signals,
                   sigInBatch, urlsUsed, exit_code>>

\* second "with state_lock:": prints the current state
HandlerStatus ==
    /\ Running /\ Len(hstack) > 0 /\ Top = "lock2"
    /\ state_lock = "free"
    /\ state_lock' = "main"
    /\ hstack' = SetTop("status")
    /\ UNCHANGED crawlVars
    /\ UNCHANGED <<is_terminated, current_url, processed_urls, total_urls,
                   results, tamper_results, active_threads, mainPc, batch,
                   batchNo, futures, children, progressPc, sink, built, signals,
                   sigInBatch, urlsUsed, exit_code>>

\* leaves the second section
HandlerStatusDone ==
    /\ Running /\ Len(hstack) > 0 /\ Top = "status"
    /\ state_lock' = "free"
    /\ hstack' = SetTop("save")
    /\ UNCHANGED crawlVars
    /\ UNCHANGED <<is_terminated, current_url, processed_urls, total_urls,
                   results, tamper_results, active_threads, mainPc, batch,
                   batchNo, futures, children, progressPc, sink, built, signals,
                   sigInBatch, urlsUsed, exit_code>>

\* save_scan_results(global_state["results"], "interrupted_scan")
HandlerSaveScan ==
    /\ Running /\ Len(hstack) > 0 /\ Top = "save"
    /\ sink' = Append(sink, SinkCall("scan", "handler", results))
    /\ hstack' = SetTop("save_tamper")
    /\ UNCHANGED crawlVars
    /\ UNCHANGED <<is_terminated, current_url, processed_urls, total_urls,
                   results, tamper_results, active_threads, state_lock, mainPc,
                   batch, batchNo, futures, children, progressPc, built, signals,
                   sigInBatch, urlsUsed, exit_code>>

\* save_tamper_results(global_state["tamper_results"], "interrupted_tamper")
HandlerSaveTamper ==
    /\ Running /\ Len(hstack) > 0 /\ Top = "save_tamper"
    /\ sink' = Append(sink, SinkCall("tamper", "handler", tamper_results))
    /\ hstack' = SetTop("exit")
    /\ UNCHANGED crawlVars
    /\ UNCHANGED <<is_terminated, current_url, processed_urls, total_urls,
                   results, tamper_results, active_threads, state_lock, mainPc,
                   batch, batchNo, futures, children, progressPc, built, signals,
                   sigInBatch, urlsUsed, exit_code>>

\* os._exit(0)
HandlerExit ==
    /\ Running /\ Len(hstack) > 0 /\ Top = "exit"
    /\ exit_code' = 0
    /\ UNCHANGED crawlVars
    /\ UNCHANGED <<is_terminated, current_url, processed_urls, total_urls,
                   results, tamper_results, active_threads, state_lock, mainPc,
                   batch, batchNo, futures, children, hstack, progressPc, sink,
                   built, signals, sigInBatch, urlsUsed>>

\* ----------------------------------------------------------- specification
Outcomes == [Links -> {"skip", "verdict", "unreachable"}]

Next ==
    \/ \E n \in 1..MaxBatch, flag \in BOOLEAN : run_batch_scan(n, flag)
    \/ \E n \in 1..MaxBatch, flag \in BOOLEAN : run_tamper_detection(n, flag)
    \/ SubmitTasks
    \/ \E f \in FutureIds : LoopCheck(f)
    \/ LoopBody
    \/ LoopEnd
    \/ LoopRaises
    \/ ExecutorExit
    \/ JoinProgress
    \/ FlushFirst
    \/ FlushSecond
    \/ BatchReturn
    \/ progress_monitor
    \/ \E u \in Urls : ScanEnter(u)
    \/ \E u \in Urls, r \in BOOLEAN, n \in 0..MaxLinks, b \in BOOLEAN : ScanProbe(u, r, n, b)
    \/ \E u \in Urls : ScanRaises(u)
    \/ \E u \in Urls, i \in Links : ChildEnter(u, i)
    \/ \E u \in Urls, i \in Links, r \in BOOLEAN, b \in BOOLEAN : ChildFinish(u, i, r, b)
    \/ \E u \in Urls, i \in Links : ScanCollect(u, i)
    \/ \E u \in Urls : ScanFinal(u)
    \/ \E u \in Urls, r \in BOOLEAN, b \in BOOLEAN, x \in BOOLEAN :
          process_tamper_parent_url(u, r, b, x)
    \/ \E u \in Urls, r \in BOOLEAN, o \in Outcomes : detect_child_tampering(u, r, o)
    \/ Signal
    \/ HandlerCheck
    \/ HandlerRelease
    \/ HandlerStatus
    \/ HandlerStatusDone
    \/ HandlerSaveScan
    \/ HandlerSaveTamper
    \/ HandlerExit

Spec == Init /\ [][Next]_vars

\* the steps the program takes by itself: not the choice of the next batch
\* at the menu, the delivery of a signal, or an exception
ProgramStep ==
    \/ SubmitTasks
    \/ \E f \in FutureIds : LoopCheck(f)
    \/ LoopBody
    \/ LoopEnd
    \/ ExecutorExit
    \/ JoinProgress
    \/ FlushFirst
    \/ FlushSecond
    \/ BatchReturn
    \/ progress_monitor
    \/ \E u \in Urls : ScanEnter(u)
    \/ \E u \in Urls, r \in BOOLEAN, n \in 0..MaxLinks, b \in BOOLEAN : ScanProbe(u, r, n, b)
    \/ \E u \in Urls, i \in Links : ChildEnter(u, i)
    \/ \E u \in Urls, i \in Links, r \in BOOLEAN, b \in BOOLEAN : ChildFinish(u, i, r, b)
    \/ \E u \in Urls, i \in Links : ScanCollect(u, i)
    \/ \E u \in Urls : ScanFinal(u)
    \/ \E u \in Urls, r \in BOOLEAN, b \in BOOLEAN, x \in BOOLEAN :
          process_tamper_parent_url(u, r, b, x)
    \/ \E u \in Urls, r \in BOOLEAN, o \in Outcomes : detect_child_tampering(u, r, o)
    \/ HandlerCheck
    \/ HandlerRelease
    \/ HandlerStatus
    \/ HandlerStatusDone
    \/ HandlerSaveScan
    \/ HandlerSaveTamper
    \/ HandlerExit

\* every thread that can run does run: the main thread, the pool threads and
\* the progress thread are scheduled by the operating system
SpecLive == Spec /\ WF_vars(ProgramStep)

\* ======================================================================
\* The crawl of one target in detail: run_single_scan on a pool thread of
\* the batch, the two probe threads of complete_and_check_url, the threads
\* of the link pool running analyze_child_link (which recurses), and under
\* them get_page_content with its retry loop and detect_tampering.  Every
\* thread is a stack of frames; only the top frame of a thread runs.  The
\* coordinator is at rest in its as_completed loop, so state_lock is held
\* only inside the atomic sections below.
\* ======================================================================
\* largest max_depth (config.json is loaded without validation, so 0 occurs)
MaxDepth == 2
\* links on the target's page
MaxRootLinks == 1
\* links on a page below the target
MaxChildLinks == 1

\* analyze_child_link keeps this many links of a page
max_child_analyze == 20

ScanT == <<"scan", 0>>
ProbeT(s) == <<"probe", s>>
LinkT(k) == <<"link", k>>

\* probe thread 1 requests http://target, probe thread 2 https://target
Threads ==
    {ScanT} \cup {ProbeT(s) : s \in 1..2}
            \cup {LinkT(k) : k \in 1..link_threads(MaxRootLinks)}

RootLinks == 1..MaxRootLinks

\* what a call gives back: None, a page (number of links, empty body, the
\* "warning" entry of a page fetched without certificate verification), a
\* list of records, a verdict, or an exception
R(kind) == [kind |-> kind, nl |-> 0, empty |-> FALSE, warning |-> FALSE, recs |-> {}]
PageRet(p, warning) ==
    [kind |-> "page", nl |-> p.nl, empty |-> p.empty, warning |-> warning, recs |-> {}]
ListRet(recs) ==
    [kind |-> "list", nl |-> 0, empty |-> FALSE, warning |-> FALSE, recs |-> recs]

\* the pages a successful request can give for a link at the given depth
Pages(depth) ==
    {[nl |-> n, empty |-> FALSE] :
        n \in 0..(IF depth = 0 THEN MaxRootLinks ELSE MaxChildLinks)}
    \cup {[nl |-> 0, empty |-> TRUE]}

Frame(fn, pc, path, depth, empty) ==
    [fn |-> fn, pc |-> pc, path |-> path, depth |-> depth, attempt |-> 0,
     nl |-> 0, empty |-> empty, idx |-> 0, res |-> {}, exc |-> FALSE,
     ret |-> R("pending")]

NoLinkFut == [state |-> "none", ret |-> R("pending"), collected |-> FALSE]

\* the record analyze_child_link builds ("depth": depth)
CrawlRecord(path, depth) == [url |-> 1, link |-> path, depth |-> depth, status |-> "ok"]

\* the record run_single_scan builds for a target without best_url ("depth": 0)
CrawlSentinel ==
    [url |-> 1, link |-> <<>>, depth |-> 0, status |-> "unreachable",
     url_matches |-> {}, content_matches |-> {},
     is_rule_match |-> FALSE, is_content_match |-> FALSE, is_malicious |-> FALSE]

TopF(t) == stacks[t][Len(stacks[t])]

At(t, fn, pc) ==
    /\ Running /\ Len(stacks[t]) > 0
    /\ TopF(t).fn = fn /\ TopF(t).pc = pc

\* the stacks after the top frame of t has become f
WithTop(t, f) == [stacks EXCEPT ![t] = [stacks[t] EXCEPT ![Len(stacks[t])] = f]]

\* the stacks after the top frame of t, left as f, has called g
Call(t, f, g) ==
    [stacks EXCEPT ![t] = Append([stacks[t] EXCEPT ![Len(stacks[t])] = f], g)]

\* the future of the task of the batch, holding what the task returned
TaskFuture(r) ==
    [Frame("future", "done", <<>>, 0, FALSE) EXCEPT !.ret = r]

\* the top frame of t returns r: to its caller, or, for the function a thread
\* was started with, to the future of that thread
Returns(t, r) ==
    LET s == stacks[t]
        n == Len(s)
    IN  /\ stacks' = [stacks EXCEPT ![t] =
                        IF n = 1 THEN (IF t = ScanT THEN <<TaskFuture(r)>> ELSE <<>>)
                        ELSE Append(SubSeq(s, 1, n - 2), [s[n - 1] EXCEPT !.ret = r])]
        /\ probeRes' = IF n = 1 /\ t[1] = "probe"
                       THEN [probeRes EXCEPT ![t[2]] = r]
                       ELSE probeRes
        /\ linkFut' = IF n = 1 /\ t[1] = "link"
                      THEN [linkFut EXCEPT ![s[1].path[1]] =
                               [state |-> "done", ret |-> r, collected |-> FALSE]]
                      ELSE linkFut

\* a URL: the host part and the rest (here the place of the page in the crawl)
PageUrl(path) == [netloc |-> "host", path |-> path]

\* hash(url): within one process a function of the string
PyHash(u) == <<u.netloc, u.path>>

\* the file name under which detect_tampering looks for the baseline of u,
\* and under which init_base_contents stores that of a parent:
\* "{netloc}_{hash(url)}.html"
BaselineName(u) == [prefix |-> u.netloc, hash |-> PyHash(u)]

\* what no step of the crawl changes
fixedInCrawl ==
    <<total_urls, state_lock, mainPc, batch, batchNo, futures, children, hstack,
      progressPc, sink, built, signals, sigInBatch, urlsUsed, max_depth, has_scheme,
      fan, calc>>

\* the state when a batch of one target has submitted a task for it:
\* run_batch_scan its run_single_scan, run_tamper_detection (with
\* include_children) its process_tamper_parent_url or detect_child_tampering
InitCrawl ==
    /\ is_terminated = FALSE
    /\ current_url = 0
    /\ processed_urls = 0
    /\ total_urls = 1
    /\ results = {}
    /\ tamper_results = {}
    /\ active_threads = 0
    /\ state_lock = "free"
    /\ mainPc = "wait"
    /\ \E flag \in BOOLEAN :
          batch \in {[fn |-> "run_batch_scan", flag |-> flag, urls |-> 1,
                      cur |-> <<"none", 0>>, err |-> FALSE],
                     [fn |-> "run_tamper_detection", flag |-> TRUE, urls |-> 1,
                      cur |-> <<"none", 0>>, err |-> FALSE]}
    /\ batchNo = 1
    /\ futures = [f \in FutureIds |-> NoFuture]
    /\ children = [c \in Urls \X Links |-> NoChild]
    /\ hstack = <<>>
    /\ progressPc = "poll"
    /\ sink = <<>>
    /\ built = {}
    /\ signals = 0
    /\ sigInBatch = FALSE
    /\ urlsUsed = 1
    /\ exit_code = -1
    /\ max_depth \in (IF batch.fn = "run_batch_scan" THEN 0..MaxDepth ELSE {1})
    /\ has_scheme \in BOOLEAN
    /\ \E fn \in TaskFns :
          /\ (fn = "run_single_scan") <=> (batch.fn = "run_batch_scan")
          /\ stacks = [t \in Threads |->
                          IF t = ScanT
                          THEN <<Frame(fn, "enter", <<>>, 0, FALSE)>>
                          ELSE <<>>]
    /\ probeRes = [s \in 1..2 |-> R("none")]
    /\ linkFut = [i \in RootLinks |-> NoLinkFut]
    /\ saw = [t \in Threads |-> FALSE]
    /\ late = FALSE
    /\ fetched = {}
    /\ fan = NoFan
    /\ store \in SUBSET {BaselineName(PageUrl(<<>>)), BaselineName(PageUrl(<<1>>))}
    /\ calc = NoCalc

\* ------------------------------------------------------- get_page_content
\* the failed attempt: sleep and go round the loop while attempt < 2, else None
RetryOrGiveUp(t) ==
    IF TopF(t).attempt < 2
    THEN /\ stacks' = WithTop(t, [TopF(t) EXCEPT !.attempt = @ + 1, !.pc = "check"])
         /\ UNCHANGED <<probeRes, linkFut>>
    ELSE Returns(t, R("none"))

\* variant: the flag is read at the top of an attempt and the request is made
\* all the same
get_page_content_Check_NoReturn(t) ==
    /\ At(t, "get_page_content", "check")
    /\ saw' = [saw EXCEPT ![t] = @ \/ is_terminated]
    /\ stacks' = WithTop(t, [TopF(t) EXCEPT !.pc = "get"])
    /\ UNCHANGED <<probeRes, linkFut>>
    /\ UNCHANGED <<is_terminated, current_url, processed_urls, results,
                   tamper_results, active_threads, exit_code, late, fetched>>
    /\ UNCHANGED <<store, fixedInCrawl>>

\* top of an attempt: under state_lock, return None when is_terminated is set
get_page_content_Check(t) ==
    /\ At(t, "get_page_content", "check")
    /\ saw' = [saw EXCEPT ![t] = @ \/ is_terminated]
    /\ IF is_terminated
       THEN Returns(t, R("none"))
       ELSE /\ stacks' = WithTop(t, [TopF(t) EXCEPT !.pc = "get"])
            /\ UNCHANGED <<probeRes, linkFut>>
    /\ UNCHANGED <<is_terminated, current_url, processed_urls, results,
                   tamper_results, active_threads, exit_code, late, fetched>>
    /\ UNCHANGED <<store, fixedInCrawl>>

\* requests.get(verify=True) and raise_for_status: the page, an SSLError, or
\* another exception
get_page_content_Request(t, outcome) ==
    /\ At(t, "get_page_content", "get")
    /\ late' = (late \/ saw[t])
    /\ fetched' = fetched \cup {TopF(t).depth}
    /\ CASE outcome = "ok" -> \E p \in Pages(TopF(t).depth) : Returns(t, PageRet(p, FALSE))
         [] outcome = "ssl" -> /\ stacks' = WithTop(t, [TopF(t) EXCEPT !.pc = "fallback"])
                               /\ UNCHANGED <<probeRes, linkFut>>
         [] outcome = "fail" -> RetryOrGiveUp(t)
    /\ UNCHANGED <<is_terminated, current_url, processed_urls, results,
                   tamper_results, active_threads, exit_code, saw>>
    /\ UNCHANGED <<store, fixedInCrawl>>

\* after an SSLError: requests.get(verify=False), without a look at the flag
get_page_content_Fallback(t, ok) ==
    /\ At(t, "get_page_content", "fallback")
    /\ late' = (late \/ saw[t])
    /\ fetched' = fetched \cup {TopF(t).depth}
    /\ IF ok
       THEN \E p \in Pages(TopF(t).depth) : Returns(t, PageRet(p, TRUE))
       ELSE RetryOrGiveUp(t)
    /\ UNCHANGED <<is_terminated, current_url, processed_urls, results,
                   tamper_results, active_threads, exit_code, saw>>
    /\ UNCHANGED <<store, fixedInCrawl>>

\* variant: a verdict is given although no baseline file exists
detect_tampering_Base_VerdictWithout(t, baseline) ==
    /\ At(t, "detect_tampering", "base")
    /\ baseline = (BaselineName(PageUrl(TopF(t).path)) \in store)
    /\ IF ~baseline
       THEN Returns(t, R("verdict"))
       ELSE IF ~TopF(t).empty
            THEN Returns(t, R("verdict"))
            ELSE /\ stacks' = Call(t, [TopF(t) EXCEPT !.pc = "refetched"],
                                   Frame("get_page_content", "check",
                                         TopF(t).path, TopF(t).depth, FALSE))
                 /\ UNCHANGED <<probeRes, linkFut>>
    /\ UNCHANGED <<is_terminated, current_url, processed_urls, results,
                   tamper_results, active_threads, exit_code, saw, late, fetched>>
    /\ UNCHANGED <<store, fixedInCrawl>>

\* variant: the page at hand is stored as the baseline of its URL
detect_tampering_Base_StoresBaseline(t, baseline) ==
    /\ At(t, "detect_tampering", "base")
    /\ baseline = (BaselineName(PageUrl(TopF(t).path)) \in store)
    /\ IF ~baseline
       THEN Returns(t, R("none"))
       ELSE IF ~TopF(t).empty
            THEN Returns(t, R("verdict"))
            ELSE /\ stacks' = Call(t, [TopF(t) EXCEPT !.pc = "refetched"],
                                   Frame("get_page_content", "check",
                                         TopF(t).path, TopF(t).depth, FALSE))
                 /\ UNCHANGED <<probeRes, linkFut>>
    /\ UNCHANGED <<is_terminated, current_url, processed_urls, results,
                   tamper_results, active_threads, exit_code, saw, late, fetched>>
    /\ store' = store \cup {BaselineName(PageUrl(TopF(t).path))}
    /\ UNCHANGED fixedInCrawl

\* ------------------------------------------------------- detect_tampering
\* no baseline file: None; a body at hand: the verdict; an empty body
\* ("if not current_content"): complete_and_check_url on the effective URL
detect_tampering_Base(t, baseline) ==
    /\ At(t, "detect_tampering", "base")
    /\ baseline = (BaselineName(PageUrl(TopF(t).path)) \in store)
    /\ IF ~baseline
       THEN Returns(t, R("none"))
       ELSE IF ~TopF(t).empty
            THEN Returns(t, R("verdict"))
            ELSE /\ stacks' = Call(t, [TopF(t) EXCEPT !.pc = "refetched"],
                                   Frame("get_page_content", "check",
                                         TopF(t).path, TopF(t).depth, FALSE))
                 /\ UNCHANGED <<probeRes, linkFut>>
    /\ UNCHANGED <<is_terminated, current_url, processed_urls, results,
                   tamper_results, active_threads, exit_code, saw, late, fetched>>
    /\ UNCHANGED <<store, fixedInCrawl>>

\* the refetch has returned: None without best_url, else the verdict
detect_tampering_Refetched(t) ==
    /\ At(t, "detect_tampering", "refetched")
    /\ Returns(t, IF TopF(t).ret.kind = "page" THEN R("verdict") ELSE R("none"))
    /\ UNCHANGED <<is_terminated, current_url, processed_urls, results,
                   tamper_results, active_threads, exit_code, saw, late, fetched>>
    /\ UNCHANGED <<store, fixedInCrawl>>

\* ----------------------------------------------------- analyze_child_link
\* variant: the invocation is counted before the flag is looked at
analyze_child_link_Enter_CountsAborted(t) ==
    /\ At(t, "analyze_child_link", "enter")
    /\ saw' = [saw EXCEPT ![t] = @ \/ is_terminated]
    /\ active_threads' = active_threads + 1
    /\ IF is_terminated
       THEN Returns(t, ListRet({}))
       ELSE /\ stacks' = WithTop(t, [TopF(t) EXCEPT !.pc = "body"])
            /\ UNCHANGED <<probeRes, linkFut>>
    /\ UNCHANGED <<is_terminated, current_url, processed_urls, results,
                   tamper_results, exit_code, late, fetched>>
    /\ UNCHANGED <<store, fixedInCrawl>>

\* first "with state_lock:": return [] when is_terminated is set, else count
\* the invocation in active_threads
analyze_child_link_Enter(t) ==
    /\ At(t, "analyze_child_link", "enter")
    /\ saw' = [saw EXCEPT ![t] = @ \/ is_terminated]
    /\ IF is_terminated
       THEN /\ Returns(t, ListRet({}))
            /\ UNCHANGED active_threads
       ELSE /\ active_threads' = active_threads + 1
            /\ stacks' = WithTop(t, [TopF(t) EXCEPT !.pc = "body"])
            /\ UNCHANGED <<probeRes, linkFut>>
    /\ UNCHANGED <<is_terminated, current_url, processed_urls, results,
                   tamper_results, exit_code, late, fetched>>
    /\ UNCHANGED <<store, fixedInCrawl>>

\* try: "if depth > max_depth: return []", else complete_and_check_url on the
\* link (an absolute link carries its scheme: one get_page_content)
analyze_child_link_Body(t) ==
    /\ At(t, "analyze_child_link", "body")
    /\ IF TopF(t).depth > max_depth
       THEN stacks' = WithTop(t, [TopF(t) EXCEPT !.pc = "finally"])
       ELSE stacks' = Call(t, [TopF(t) EXCEPT !.pc = "probed"],
                           Frame("get_page_content", "check",
                                 TopF(t).path, TopF(t).depth, FALSE))
    /\ UNCHANGED <<is_terminated, current_url, processed_urls, results,
                   tamper_results, active_threads, exit_code, probeRes, linkFut,
                   saw, late, fetched>>
    /\ UNCHANGED <<store, fixedInCrawl>>

\* variant: detect_tampering is called for the links of every level
analyze_child_link_Probed_AnyDepth(t) ==
    /\ At(t, "analyze_child_link", "probed")
    /\ LET f == TopF(t)
           g == [f EXCEPT !.nl = f.ret.nl, !.empty = f.ret.empty]
       IN  IF f.ret.kind # "page"
           THEN stacks' = WithTop(t, [f EXCEPT !.pc = "finally"])
           ELSE IF batch.flag /\ f.depth >= 1
                THEN stacks' = Call(t, [g EXCEPT !.pc = "tampered"],
                                    Frame("detect_tampering", "base",
                                          f.path, f.depth, f.ret.empty))
                ELSE stacks' = WithTop(t, [g EXCEPT !.pc = "classify"])
    /\ UNCHANGED <<is_terminated, current_url, processed_urls, results,
                   tamper_results, active_threads, exit_code, probeRes, linkFut,
                   saw, late, fetched>>
    /\ UNCHANGED <<store, fixedInCrawl>>

\* no best_url: return []; else the page is kept and, with
\* perform_tamper_check at depth 1, detect_tampering is called on its body
analyze_child_link_Probed(t) ==
    /\ At(t, "analyze_child_link", "probed")
    /\ LET f == TopF(t)
           g == [f EXCEPT !.nl = f.ret.nl, !.empty = f.ret.empty]
       IN  IF f.ret.kind # "page"
           THEN stacks' = WithTop(t, [f EXCEPT !.pc = "finally"])
           ELSE IF batch.flag /\ f.depth = 1
                THEN stacks' = Call(t, [g EXCEPT !.pc = "tampered"],
                                    Frame("detect_tampering", "base",
                                          f.path, f.depth, f.ret.empty))
                ELSE stacks' = WithTop(t, [g EXCEPT !.pc = "classify"])
    /\ UNCHANGED <<is_terminated, current_url, processed_urls, results,
                   tamper_results, active_threads, exit_code, probeRes, linkFut,
                   saw, late, fetched>>
    /\ UNCHANGED <<store, fixedInCrawl>>

\* "if tamper_result:" the verdict is appended to tamper_results under
\* state_lock
analyze_child_link_Tampered(t) ==
    /\ At(t, "analyze_child_link", "tampered")
    /\ tamper_results' = IF TopF(t).ret.kind = "verdict"
                         THEN tamper_results \cup {Verdict(1, TopF(t).path)}
                         ELSE tamper_results
    /\ stacks' = WithTop(t, [TopF(t) EXCEPT !.pc = "classify"])
    /\ UNCHANGED <<is_terminated, current_url, processed_urls, results,
                   active_threads, exit_code, probeRes, linkFut, saw, late, fetched>>
    /\ UNCHANGED <<store, fixedInCrawl>>

\* variant: the record carries the depth of the level below
analyze_child_link_Classify_DepthBelow(t, raises) ==
    /\ At(t, "analyze_child_link", "classify")
    /\ LET f == TopF(t)
           rec == CrawlRecord(f.path, f.depth + 1)
       IN  IF raises
           THEN stacks' = WithTop(t, [f EXCEPT !.pc = "finally", !.exc = TRUE])
           ELSE IF f.depth < max_depth
                THEN stacks' = WithTop(t, [f EXCEPT !.res = {rec},
                                                     !.nl = Min(f.nl, max_child_analyze),
                                                     !.idx = 1,
                                                     !.pc = "loop"])
                ELSE stacks' = WithTop(t, [f EXCEPT !.res = {rec}, !.pc = "finally"])
    /\ UNCHANGED <<is_terminated, current_url, processed_urls, results,
                   tamper_results, active_threads, exit_code, probeRes, linkFut,
                   saw, late, fetched>>
    /\ UNCHANGED <<store, fixedInCrawl>>

\* match_rules and the record; an exception here leaves through finally.
\* With depth < max_depth the links of the page are extracted and cut to
\* max_child_analyze
analyze_child_link_Classify(t, raises) ==
    /\ At(t, "analyze_child_link", "classify")
    /\ LET f == TopF(t)
           rec == CrawlRecord(f.path, f.depth)
       IN  IF raises
           THEN stacks' = WithTop(t, [f EXCEPT !.pc = "finally", !.exc = TRUE])
           ELSE IF f.depth < max_depth
                THEN stacks' = WithTop(t, [f EXCEPT !.res = {rec},
                                                     !.nl = Min(f.nl, max_child_analyze),
                                                     !.idx = 1,
                                                     !.pc = "loop"])
                ELSE stacks' = WithTop(t, [f EXCEPT !.res = {rec}, !.pc = "finally"])
    /\ UNCHANGED <<is_terminated, current_url, processed_urls, results,
                   tamper_results, active_threads, exit_code, probeRes, linkFut,
                   saw, late, fetched>>
    /\ UNCHANGED <<store, fixedInCrawl>>

\* "for child_link in child_links": under state_lock, break when
\* is_terminated is set, else call analyze_child_link at depth + 1
analyze_child_link_Loop(t) ==
    /\ At(t, "analyze_child_link", "loop")
    /\ LET f == TopF(t)
       IN  IF f.idx > f.nl
           THEN /\ stacks' = WithTop(t, [f EXCEPT !.pc = "finally"])
                /\ UNCHANGED saw
           ELSE /\ saw' = [saw EXCEPT ![t] = @ \/ is_terminated]
                /\ IF is_terminated
                   THEN stacks' = WithTop(t, [f EXCEPT !.pc = "finally"])
                   ELSE stacks' = Call(t, [f EXCEPT !.pc = "extend"],
                                       Frame("analyze_child_link", "enter",
                                             Append(f.path, f.idx), f.depth + 1, FALSE))
    /\ UNCHANGED <<is_terminated, current_url, processed_urls, results,
                   tamper_results, active_threads, exit_code, probeRes, linkFut,
                   late, fetched>>
    /\ UNCHANGED <<store, fixedInCrawl>>

\* results.extend(child_results); an exception of the call is caught by the
\* except clause around the loop, which ends the loop
analyze_child_link_Extend(t) ==
    /\ At(t, "analyze_child_link", "extend")
    /\ LET f == TopF(t)
       IN  IF f.ret.kind = "exc"
           THEN stacks' = WithTop(t, [f EXCEPT !.pc = "finally"])
           ELSE stacks' = WithTop(t, [f EXCEPT !.res = @ \cup f.ret.recs,
                                                !.idx = @ + 1,
                                                !.pc = "loop"])
    /\ UNCHANGED <<is_terminated, current_url, processed_urls, results,
                   tamper_results, active_threads, exit_code, probeRes, linkFut,
                   saw, late, fetched>>
    /\ UNCHANGED <<store, fixedInCrawl>>

\* finally: under state_lock active_threads is decremented; then the list is
\* returned or the exception goes on to the caller
analyze_child_link_Finally(t) ==
    /\ At(t, "analyze_child_link", "finally")
    /\ active_threads' = active_threads - 1
    /\ Returns(t, IF TopF(t).exc THEN R("exc") ELSE ListRet(TopF(t).res))
    /\ UNCHANGED <<is_terminated, current_url, processed_urls, results,
                   tamper_results, exit_code, saw, late, fetched>>
    /\ UNCHANGED <<store, fixedInCrawl>>

\* -------------------------------------------------------- run_single_scan
\* under state_lock: return [] when is_terminated is set, else current_url
\* is set to the target
run_single_scan_Enter ==
    /\ At(ScanT, "run_single_scan", "enter")
    /\ saw' = [saw EXCEPT ![ScanT] = @ \/ is_terminated]
    /\ IF is_terminated
       THEN /\ Returns(ScanT, ListRet({}))
            /\ UNCHANGED current_url
       ELSE /\ current_url' = 1
            /\ stacks' = WithTop(ScanT, [TopF(ScanT) EXCEPT !.pc = "probe"])
            /\ UNCHANGED <<probeRes, linkFut>>
    /\ UNCHANGED <<is_terminated, processed_urls, results, tamper_results,
                   active_threads, exit_code, late, fetched>>
    /\ UNCHANGED <<store, fixedInCrawl>>

\* complete_and_check_url on the target by the task of the batch: with a
\* scheme one get_page_content in this thread, without one a pool of two
\* threads requesting http:// and https://
ProbeTarget ==
    /\ LET f == [TopF(ScanT) EXCEPT !.pc = IF has_scheme THEN "probed" ELSE "wait_http"]
           g == Frame("get_page_content", "check", <<>>, 0, FALSE)
       IN  IF has_scheme
           THEN /\ stacks' = Call(ScanT, f, g)
                /\ UNCHANGED <<probeRes, saw>>
           ELSE /\ stacks' = [WithTop(ScanT, f) EXCEPT ![ProbeT(1)] = <<g>>,
                                                       ![ProbeT(2)] = <<g>>]
                /\ probeRes' = [s \in 1..2 |-> R("pending")]
                /\ saw' = [saw EXCEPT ![ProbeT(1)] = FALSE, ![ProbeT(2)] = FALSE]
    /\ UNCHANGED <<is_terminated, current_url, processed_urls, results,
                   tamper_results, active_threads, exit_code, linkFut, late, fetched>>
    /\ UNCHANGED <<store, fixedInCrawl>>

\* the probes of complete_and_check_url have returned
ProbeDone == ~has_scheme => \A s \in 1..2 : probeRes[s].kind # "pending"

\* the caller of complete_and_check_url is at the given place of it
InCheck(pc) ==
    /\ Running /\ Len(stacks[ScanT]) > 0
    /\ TopF(ScanT).pc = pc

\* http_future.result(timeout + 2): the page or None of the http probe, or
\* the TimeoutError while that probe still runs, caught and recorded as an
\* error; results['http'] is a page or stays None
complete_and_check_url_Http(timed_out) ==
    /\ InCheck("wait_http")
    /\ timed_out = (probeRes[1].kind = "pending")
    /\ stacks' = WithTop(ScanT, [TopF(ScanT) EXCEPT
                     !.pc = "wait_https",
                     !.ret = IF timed_out THEN R("none") ELSE probeRes[1]])
    /\ UNCHANGED <<is_terminated, current_url, processed_urls, results,
                   tamper_results, active_threads, exit_code, probeRes, linkFut,
                   saw, late, fetched>>
    /\ UNCHANGED <<store, fixedInCrawl>>

\* https_future.result(timeout + 2) likewise, then the choice of best_url:
\* the https page when results['https'] holds one, else what http left
complete_and_check_url_Https(timed_out) ==
    /\ InCheck("wait_https")
    /\ timed_out = (probeRes[2].kind = "pending")
    /\ stacks' = WithTop(ScanT, [TopF(ScanT) EXCEPT
                     !.pc = "pool_exit",
                     !.ret = IF ~timed_out /\ probeRes[2].kind = "page"
                             THEN probeRes[2] ELSE @])
    /\ UNCHANGED <<is_terminated, current_url, processed_urls, results,
                   tamper_results, active_threads, exit_code, probeRes, linkFut,
                   saw, late, fetched>>
    /\ UNCHANGED <<store, fixedInCrawl>>

\* the end of the "with ThreadPoolExecutor" block waits for both probes
complete_and_check_url_Exit ==
    /\ InCheck("pool_exit")
    /\ ProbeDone
    /\ stacks' = WithTop(ScanT, [TopF(ScanT) EXCEPT !.pc = "probed"])
    /\ UNCHANGED <<is_terminated, current_url, processed_urls, results,
                   tamper_results, active_threads, exit_code, probeRes, linkFut,
                   saw, late, fetched>>
    /\ UNCHANGED <<store, fixedInCrawl>>

\* run_single_scan probes its target
run_single_scan_Probe ==
    /\ At(ScanT, "run_single_scan", "probe")
    /\ ProbeTarget

\* what complete_and_check_url gives: the page of best_url, or None without
\* a best_url
BestPage == TopF(ScanT).ret

\* variant: the target without best_url is not counted as processed
run_single_scan_Probed_NotCounted ==
    /\ At(ScanT, "run_single_scan", "probed")
    /\ ProbeDone
    /\ LET f == TopF(ScanT)
           g == [f EXCEPT !.nl = BestPage.nl, !.empty = BestPage.empty]
       IN  IF BestPage.kind # "page"
           THEN /\ results' = results \cup {CrawlSentinel}
                /\ processed_urls' = processed_urls
                /\ current_url' = 0
                /\ Returns(ScanT, ListRet({CrawlSentinel}))
           ELSE /\ IF batch.flag
                   THEN stacks' = Call(ScanT, [g EXCEPT !.pc = "tampered"],
                                       Frame("detect_tampering", "base", <<>>, 0,
                                             BestPage.empty))
                   ELSE stacks' = WithTop(ScanT, [g EXCEPT !.pc = "submit"])
                /\ UNCHANGED <<results, processed_urls, current_url, probeRes, linkFut>>
    /\ UNCHANGED <<is_terminated, tamper_results, active_threads, exit_code,
                   saw, late, fetched>>
    /\ UNCHANGED <<store, fixedInCrawl>>

\* no best_url: the sentinel record is appended to results and
\* processed_urls incremented under state_lock; else detect_tampering on the
\* page with perform_tamper_check
run_single_scan_Probed ==
    /\ At(ScanT, "run_single_scan", "probed")
    /\ ProbeDone
    /\ LET f == TopF(ScanT)
           g == [f EXCEPT !.nl = BestPage.nl, !.empty = BestPage.empty]
       IN  IF BestPage.kind # "page"
           THEN /\ results' = results \cup {CrawlSentinel}
                /\ processed_urls' = processed_urls + 1
                /\ current_url' = 0
                /\ Returns(ScanT, ListRet({CrawlSentinel}))
           ELSE /\ IF batch.flag
                   THEN stacks' = Call(ScanT, [g EXCEPT !.pc = "tampered"],
                                       Frame("detect_tampering", "base", <<>>, 0,
                                             BestPage.empty))
                   ELSE stacks' = WithTop(ScanT, [g EXCEPT !.pc = "submit"])
                /\ UNCHANGED <<results, processed_urls, current_url, probeRes, linkFut>>
    /\ UNCHANGED <<is_terminated, tamper_results, active_threads, exit_code,
                   saw, late, fetched>>
    /\ UNCHANGED <<store, fixedInCrawl>>

\* "if tamper_result:" the verdict is appended to tamper_results under
\* state_lock
run_single_scan_Tampered ==
    /\ At(ScanT, "run_single_scan", "tampered")
    /\ tamper_results' = IF TopF(ScanT).ret.kind = "verdict"
                         THEN tamper_results \cup {Verdict(1, <<>>)}
                         ELSE tamper_results
    /\ stacks' = WithTop(ScanT, [TopF(ScanT) EXCEPT !.pc = "submit"])
    /\ UNCHANGED <<is_terminated, current_url, processed_urls, results,
                   active_threads, exit_code, probeRes, linkFut, saw, late, fetched>>
    /\ UNCHANGED <<store, fixedInCrawl>>

\* the links of the page are extracted (a failure to parse counts the target
\* as processed and returns []); one analyze_child_link at depth 1 is
\* submitted to the link pool for every link
run_single_scan_Submit(parses) ==
    /\ At(ScanT, "run_single_scan", "submit")
    /\ IF parses
       THEN /\ linkFut' = [i \in RootLinks |->
                              IF i <= TopF(ScanT).nl
                              THEN [NoLinkFut EXCEPT !.state = "queued"]
                              ELSE NoLinkFut]
            /\ stacks' = WithTop(ScanT, [TopF(ScanT) EXCEPT !.pc = "collect"])
            /\ UNCHANGED <<processed_urls, current_url, probeRes>>
       ELSE /\ processed_urls' = processed_urls + 1
            /\ current_url' = 0
            /\ Returns(ScanT, ListRet({}))
    /\ UNCHANGED <<is_terminated, results, tamper_results, active_threads,
                   exit_code, saw, late, fetched>>
    /\ UNCHANGED <<store, fixedInCrawl>>

\* a thread of the link pool starts the next queued analyze_child_link
LinkPoolTake(k, i) ==
    /\ Running /\ stacks[LinkT(k)] = <<>>
    /\ linkFut[i].state = "queued"
    /\ \A j \in RootLinks : j < i => linkFut[j].state # "queued"
    /\ k <= link_threads(Cardinality({j \in RootLinks : linkFut[j].state # "none"}))
    /\ linkFut' = [linkFut EXCEPT ![i].state = "running"]
    /\ stacks' = [stacks EXCEPT ![LinkT(k)] =
                     <<Frame("analyze_child_link", "enter", <<i>>, 1, FALSE)>>]
    /\ saw' = [saw EXCEPT ![LinkT(k)] = FALSE]
    /\ UNCHANGED <<is_terminated, current_url, processed_urls, results,
                   tamper_results, active_threads, exit_code, probeRes, late, fetched>>
    /\ UNCHANGED <<store, fixedInCrawl>>

\* as_completed loop: under state_lock, executor.shutdown(wait=False) and
\* break when is_terminated is set; else the list of the finished future is
\* added to the local list (an exception of the future is logged)
run_single_scan_Collect(i) ==
    /\ At(ScanT, "run_single_scan", "collect")
    /\ linkFut[i].state = "done" /\ ~linkFut[i].collected
    /\ saw' = [saw EXCEPT ![ScanT] = @ \/ is_terminated]
    /\ IF is_terminated
       THEN /\ stacks' = WithTop(ScanT, [TopF(ScanT) EXCEPT !.pc = "drain"])
            /\ UNCHANGED linkFut
       ELSE /\ stacks' = WithTop(ScanT, [TopF(ScanT) EXCEPT !.res =
                                            @ \cup linkFut[i].ret.recs])
            /\ linkFut' = [linkFut EXCEPT ![i].collected = TRUE]
    /\ UNCHANGED <<is_terminated, current_url, processed_urls, results,
                   tamper_results, active_threads, exit_code, probeRes, late, fetched>>
    /\ UNCHANGED <<store, fixedInCrawl>>

\* the loop ends when every future has been yielded
run_single_scan_LoopEnd ==
    /\ At(ScanT, "run_single_scan", "collect")
    /\ \A i \in RootLinks : linkFut[i].state = "none" \/ linkFut[i].collected
    /\ stacks' = WithTop(ScanT, [TopF(ScanT) EXCEPT !.pc = "final"])
    /\ UNCHANGED <<is_terminated, current_url, processed_urls, results,
                   tamper_results, active_threads, exit_code, probeRes, linkFut,
                   saw, late, fetched>>
    /\ UNCHANGED <<store, fixedInCrawl>>

\* after the break the "with" block is left when every submitted
\* analyze_child_link has run and returned (nothing was cancelled)
run_single_scan_PoolExit ==
    /\ At(ScanT, "run_single_scan", "drain")
    /\ \A i \in RootLinks : linkFut[i].state \in {"none", "done"}
    /\ stacks' = WithTop(ScanT, [TopF(ScanT) EXCEPT !.pc = "final"])
    /\ UNCHANGED <<is_terminated, current_url, processed_urls, results,
                   tamper_results, active_threads, exit_code, probeRes, linkFut,
                   saw, late, fetched>>
    /\ UNCHANGED <<store, fixedInCrawl>>

\* under state_lock: processed_urls incremented, current_url cleared, the
\* local list added to results
run_single_scan_Final ==
    /\ At(ScanT, "run_single_scan", "final")
    /\ processed_urls' = processed_urls + 1
    /\ current_url' = 0
    /\ results' = results \cup TopF(ScanT).res
    /\ Returns(ScanT, ListRet(TopF(ScanT).res))
    /\ UNCHANGED <<is_terminated, tamper_results, active_threads, exit_code,
                   saw, late, fetched>>
    /\ UNCHANGED <<store, fixedInCrawl>>

\* ---------------------------------------------- process_tamper_parent_url
\* process_tamper_parent_url probes its target
process_tamper_parent_url_Probe ==
    /\ At(ScanT, "process_tamper_parent_url", "enter")
    /\ ProbeTarget

\* no best_url: the "unreachable" record is returned; else detect_tampering
\* is called without a body (None), so that it fetches the page again
process_tamper_parent_url_Probed ==
    /\ At(ScanT, "process_tamper_parent_url", "probed")
    /\ ProbeDone
    /\ IF BestPage.kind # "page"
       THEN Returns(ScanT, ListRet({Unreachable(1, <<>>)}))
       ELSE /\ stacks' = Call(ScanT, [TopF(ScanT) EXCEPT !.pc = "tampered"],
                              Frame("detect_tampering", "base", <<>>, 0, TRUE))
            /\ UNCHANGED <<probeRes, linkFut>>
    /\ UNCHANGED <<is_terminated, current_url, processed_urls, results,
                   tamper_results, active_threads, exit_code, saw, late, fetched>>
    /\ UNCHANGED <<store, fixedInCrawl>>

\* "return tamper_result": the verdict or None
process_tamper_parent_url_Return ==
    /\ At(ScanT, "process_tamper_parent_url", "tampered")
    /\ Returns(ScanT, IF TopF(ScanT).ret.kind = "verdict"
                      THEN ListRet({Verdict(1, <<>>)})
                      ELSE R("none"))
    /\ UNCHANGED <<is_terminated, current_url, processed_urls, results,
                   tamper_results, active_threads, exit_code, saw, late, fetched>>
    /\ UNCHANGED <<store, fixedInCrawl>>

\* ------------------------------------------------- detect_child_tampering
\* detect_child_tampering keeps this many links of the parent page
max_children == 10

\* detect_child_tampering probes the parent
detect_child_tampering_Probe ==
    /\ At(ScanT, "detect_child_tampering", "enter")
    /\ ProbeTarget

\* no best_url, or a page that does not parse: return []; else the links of
\* the page are cut to max_children
detect_child_tampering_Probed(parses) ==
    /\ At(ScanT, "detect_child_tampering", "probed")
    /\ ProbeDone
    /\ IF BestPage.kind # "page" \/ ~parses
       THEN Returns(ScanT, ListRet({}))
       ELSE /\ stacks' = WithTop(ScanT, [TopF(ScanT) EXCEPT
                                            !.nl = Min(BestPage.nl, max_children),
                                            !.idx = 1,
                                            !.pc = "loop"])
            /\ UNCHANGED <<probeRes, linkFut>>
    /\ UNCHANGED <<is_terminated, current_url, processed_urls, results,
                   tamper_results, active_threads, exit_code, saw, late, fetched>>
    /\ UNCHANGED <<store, fixedInCrawl>>

\* "for link in child_links": under state_lock, break when is_terminated is
\* set, else complete_and_check_url on the link; after the loop the list is
\* returned
detect_child_tampering_Loop ==
    /\ At(ScanT, "detect_child_tampering", "loop")
    /\ LET f == TopF(ScanT)
       IN  IF f.idx > f.nl
           THEN /\ Returns(ScanT, ListRet(f.res))
                /\ UNCHANGED saw
           ELSE /\ saw' = [saw EXCEPT ![ScanT] = @ \/ is_terminated]
                /\ IF is_terminated
                   THEN Returns(ScanT, ListRet(f.res))
                   ELSE /\ stacks' = Call(ScanT, [f EXCEPT !.pc = "child_probed"],
                                          Frame("get_page_content", "check",
                                                <<f.idx>>, 1, FALSE))
                        /\ UNCHANGED <<probeRes, linkFut>>
    /\ UNCHANGED <<is_terminated, current_url, processed_urls, results,
                   tamper_results, active_threads, exit_code, late, fetched>>
    /\ UNCHANGED <<store, fixedInCrawl>>

\* no best_url: the "unreachable" record of the link is appended and the
\* loop continues; else detect_tampering is called without a body
detect_child_tampering_ChildProbed ==
    /\ At(ScanT, "detect_child_tampering", "child_probed")
    /\ LET f == TopF(ScanT)
       IN  IF f.ret.kind # "page"
           THEN stacks' = WithTop(ScanT, [f EXCEPT
                                             !.res = @ \cup {Unreachable(1, <<f.idx>>)},
                                             !.idx = @ + 1,
                                             !.pc = "loop"])
           ELSE stacks' = Call(ScanT, [f EXCEPT !.pc = "child_tampered"],
                               Frame("detect_tampering", "base", <<f.idx>>, 1, TRUE))
    /\ UNCHANGED <<is_terminated, current_url, processed_urls, results,
                   tamper_results, active_threads, exit_code, probeRes, linkFut,
                   saw, late, fetched>>
    /\ UNCHANGED <<store, fixedInCrawl>>

\* "if tamper_result: results.append(tamper_result)"
detect_child_tampering_ChildTampered ==
    /\ At(ScanT, "detect_child_tampering", "child_tampered")
    /\ LET f == TopF(ScanT)
       IN  stacks' = WithTop(ScanT, [f EXCEPT
                                        !.res = IF f.ret.kind = "verdict"
                                                THEN @ \cup {Verdict(1, <<f.idx>>)}
                                                ELSE @,
                                        !.idx = @ + 1,
                                        !.pc = "loop"])
    /\ UNCHANGED <<is_terminated, current_url, processed_urls, results,
                   tamper_results, active_threads, exit_code, probeRes, linkFut,
                   saw, late, fetched>>
    /\ UNCHANGED <<store, fixedInCrawl>>

\* ------------------------------------------------- the termination signal
\* handle_termination sets is_terminated under state_lock
handle_termination_SetFlag ==
    /\ Running /\ ~is_terminated
    /\ is_terminated' = TRUE
    /\ UNCHANGED <<current_url, processed_urls, results, tamper_results,
                   active_threads, exit_code, stacks, probeRes, linkFut, saw,
                   late, fetched>>
    /\ UNCHANGED <<store, fixedInCrawl>>

\* handle_termination ends the process with os._exit(0)
handle_termination_Exit ==
    /\ Running /\ is_terminated
    /\ exit_code' = 0
    /\ UNCHANGED <<is_terminated, current_url, processed_urls, results,
                   tamper_results, active_threads, stacks, probeRes, linkFut,
                   saw, late, fetched>>
    /\ UNCHANGED <<store, fixedInCrawl>>

NextCrawl ==
    \/ \E t \in Threads : get_page_content_Check(t)
    \/ \E t \in Threads, o \in {"ok", "ssl", "fail"} : get_page_content_Request(t, o)
    \/ \E t \in Threads, ok \in BOOLEAN : get_page_content_Fallback(t, ok)
    \/ \E t \in Threads, b \in BOOLEAN : detect_tampering_Base(t, b)
    \/ \E t \in Threads : detect_tampering_Refetched(t)
    \/ \E t \in Threads : analyze_child_link_Enter(t)
    \/ \E t \in Threads : analyze_child_link_Body(t)
    \/ \E t \in Threads : analyze_child_link_Probed(t)
    \/ \E t \in Threads : analyze_child_link_Tampered(t)
    \/ \E t \in Threads, x \in BOOLEAN : analyze_child_link_Classify(t, x)
    \/ \E t \in Threads : analyze_child_link_Loop(t)
    \/ \E t \in Threads : analyze_child_link_Extend(t)
    \/ \E t \in Threads : analyze_child_link_Finally(t)
    \/ run_single_scan_Enter
    \/ run_single_scan_Probe
    \/ \E timed_out \in BOOLEAN : complete_and_check_url_Http(timed_out)
    \/ \E timed_out \in BOOLEAN : complete_and_check_url_Https(timed_out)
    \/ complete_and_check_url_Exit
    \/ run_single_scan_Probed
    \/ run_single_scan_Tampered
    \/ \E ok \in BOOLEAN : run_single_scan_Submit(ok)
    \/ \E k \in 1..link_threads(MaxRootLinks), i \in RootLinks : LinkPoolTake(k, i)
    \/ \E i \in RootLinks : run_single_scan_Collect(i)
    \/ run_single_scan_LoopEnd
    \/ run_single_scan_PoolExit
    \/ run_single_scan_Final
    \/ process_tamper_parent_url_Probe
    \/ process_tamper_parent_url_Probed
    \/ process_tamper_parent_url_Return
    \/ detect_child_tampering_Probe
    \/ \E ok \in BOOLEAN : detect_child_tampering_Probed(ok)
    \/ detect_child_tampering_Loop
    \/ detect_child_tampering_ChildProbed
    \/ detect_child_tampering_ChildTampered
    \/ handle_termination_SetFlag
    \/ handle_termination_Exit

SpecCrawl == InitCrawl /\ [][NextCrawl]_vars


\* ======================================================================
\* The links of one page and the analyses started for them at the next
\* level, by number: run_single_scan hands the links of the target's page
\* to its link pool, analyze_child_link those of a page below the target to
\* its loop.
\* ======================================================================
\* links on one page
MaxFanLinks == 21

\* what no step of this part changes
fixedInFanout ==
    <<current_url, processed_urls, total_urls, results, tamper_results,
      active_threads, state_lock, mainPc, batch, batchNo, futures, children,
      hstack, progressPc, sink, built, signals, sigInBatch, urlsUsed, exit_code,
      max_depth, has_scheme, stacks, probeRes, linkFut, saw, late, fetched,
      store, calc>>

InitFanout ==
    /\ is_terminated = FALSE
    /\ current_url = 0
    /\ processed_urls = 0
    /\ total_urls = 1
    /\ results = {}
    /\ tamper_results = {}
    /\ active_threads = 0
    /\ state_lock = "free"
    /\ mainPc = "wait"
    /\ batch = [fn |-> "run_batch_scan", flag |-> FALSE, urls |-> 1,
                cur |-> <<"none", 0>>, err |-> FALSE]
    /\ batchNo = 1
    /\ futures = [f \in FutureIds |-> NoFuture]
    /\ children = [c \in Urls \X Links |-> NoChild]
    /\ hstack = <<>>
    /\ progressPc = "poll"
    /\ sink = <<>>
    /\ built = {}
    /\ signals = 0
    /\ sigInBatch = FALSE
    /\ urlsUsed = 1
    /\ exit_code = -1
    /\ max_depth \in 1..MaxDepth
    /\ has_scheme = TRUE
    /\ stacks = <<>>
    /\ probeRes = <<>>
    /\ linkFut = <<>>
    /\ saw = <<>>
    /\ late = FALSE
    /\ fetched = {}
    /\ fan = NoFan
    /\ store = {}
    /\ calc = NoCalc

\* extract_links_from_tags on a fetched page: of the target (depth 0) in
\* run_single_scan, of a link at depth 1..max_depth-1 in analyze_child_link
\* (which extracts only with depth < max_depth); the page has n links
extract_links_from_tags(depth, n) ==
    /\ fan.pc = "idle" /\ ~is_terminated
    /\ depth < max_depth
    /\ fan' = [NoFan EXCEPT !.pc = "extracted", !.depth = depth, !.nl = n]
    /\ UNCHANGED is_terminated
    /\ UNCHANGED fixedInFanout

\* run_single_scan: the link pool gets link_threads workers and "for link in
\* links" submits one analyze_child_link per extracted link to it
run_single_scan_SubmitLinks ==
    /\ fan.pc = "extracted" /\ fan.depth = 0
    /\ fan' = [fan EXCEPT !.pc = "pool", !.handed = fan.nl,
                          !.workers = link_threads(fan.nl)]
    /\ UNCHANGED is_terminated
    /\ UNCHANGED fixedInFanout

\* a free worker of the link pool takes a submitted analyze_child_link: it
\* returns at once when is_terminated is set, else it analyses its link at
\* depth 1
LinkPoolRun ==
    /\ fan.pc = "pool" /\ fan.taken < fan.handed
    /\ fan.running < fan.workers
    /\ fan' = [fan EXCEPT !.taken = @ + 1, !.running = @ + 1,
                          !.started = IF is_terminated THEN @ ELSE @ + 1]
    /\ UNCHANGED is_terminated
    /\ UNCHANGED fixedInFanout

\* an analyze_child_link of the link pool returns and its worker is free
LinkPoolReturn ==
    /\ fan.pc = "pool" /\ fan.running > 0
    /\ fan' = [fan EXCEPT !.running = @ - 1]
    /\ UNCHANGED is_terminated
    /\ UNCHANGED fixedInFanout

\* analyze_child_link: child_links = child_links[:max_child_analyze]
analyze_child_link_CutLinks ==
    /\ fan.pc = "extracted" /\ fan.depth > 0
    /\ fan' = [fan EXCEPT !.pc = "loop", !.handed = Min(fan.nl, max_child_analyze)]
    /\ UNCHANGED is_terminated
    /\ UNCHANGED fixedInFanout

\* analyze_child_link: "for child_link in child_links": break when
\* is_terminated is set, else analyse the link at depth + 1
analyze_child_link_LoopStep ==
    /\ fan.pc = "loop" /\ fan.taken < fan.handed
    /\ IF is_terminated
       THEN fan' = [fan EXCEPT !.taken = fan.handed]
       ELSE fan' = [fan EXCEPT !.taken = @ + 1, !.started = @ + 1]
    /\ UNCHANGED is_terminated
    /\ UNCHANGED fixedInFanout

\* every link handed on has been dealt with
PageDone ==
    /\ fan.pc \in {"pool", "loop"} /\ fan.taken = fan.handed /\ fan.running = 0
    /\ fan' = NoFan
    /\ UNCHANGED is_terminated
    /\ UNCHANGED fixedInFanout

\* handle_termination sets is_terminated while a page is being handed on
FanoutSetFlag ==
    /\ fan.pc # "idle" /\ ~is_terminated
    /\ is_terminated' = TRUE
    /\ UNCHANGED fan
    /\ UNCHANGED fixedInFanout

NextFanout ==
    \/ \E d \in 0..(MaxDepth - 1), n \in 0..MaxFanLinks : extract_links_from_tags(d, n)
    \/ run_single_scan_SubmitLinks
    \/ LinkPoolRun
    \/ LinkPoolReturn
    \/ analyze_child_link_CutLinks
    \/ analyze_child_link_LoopStep
    \/ PageDone
    \/ FanoutSetFlag

SpecFanout == InitFanout /\ [][NextFanout]_vars

\* ======================================================================
\* Functions without shared state, applied to arguments drawn from small
\* sets, each family under a specification of its own: rule matching and
\* classification (SpecClassify), compare_html (SpecCompare), the names of
\* baseline files (SpecBaseline), one call of get_page_content with the
\* requests it makes (SpecFetch).  calc keeps the arguments and the value of
\* the last application.
\* ======================================================================
\* records in results
MaxResults == 2

\* what no step of this part changes
fixedInFn ==
    <<is_terminated, current_url, processed_urls, total_urls, active_threads,
      state_lock, mainPc, batch, batchNo, futures, children, hstack, progressPc,
      sink, built, signals, sigInBatch, urlsUsed, exit_code, max_depth,
      has_scheme, stacks, probeRes, linkFut, saw, late, fetched, fan>>

\* a batch is running and has one target
InitFn == InitFanout /\ max_depth = 1

\* str.lower() on the words that occur
Lower(w) ==
    CASE w = "BET" -> "bet"
      [] w = "Casino" -> "casino"
      [] w = "MAL" -> "mal"
      [] OTHER -> w

\* a text is the set of words that occur in it; "x in text"
Occurs(w, text) == w \in text

\* text.lower()
LowerAll(text) == {Lower(w) : w \in text}

\* the rule sets load_rules gives
RuleSets ==
    [keywords : SUBSET {"BET"}, domains : SUBSET {"bad"},
     regex_patterns : SUBSET {"mal", "("}, content_keywords : SUBSET {"Casino"}]

\* the links extract_links_from_tags gives: the netloc is a part of the link
LinkInfos ==
    {l \in [absolute_link : SUBSET {"bet", "bad", "MAL"}, netloc : SUBSET {"bad"},
            text_content : SUBSET {"casino"}] : l.netloc \subseteq l.absolute_link}

\* re.search(pattern, link, flags): "(" does not compile (re.error, caught),
\* the other patterns match a word, without regard to case with re.IGNORECASE
Search(pattern, link, ignorecase) ==
    /\ pattern # "("
    /\ IF ignorecase
       THEN Occurs(Lower(pattern), LowerAll(link))
       ELSE Occurs(pattern, link)

match_rules(link_info, rules, ignorecase) ==
    [url_matches |->
        {<<"keyword", k>> : k \in {k \in rules.keywords :
            Occurs(Lower(k), LowerAll(link_info.absolute_link))}}
        \cup {<<"domain", d>> : d \in {d \in rules.domains :
            Occurs(Lower(d), LowerAll(link_info.netloc))}}
        \cup {<<"regex", r>> : r \in {r \in rules.regex_patterns :
            Search(r, link_info.absolute_link, ignorecase)}},
     content_matches |->
        {<<"content_keyword", k>> : k \in {k \in rules.content_keywords :
            Occurs(Lower(k), LowerAll(link_info.text_content))}}]

\* variant: one kind of match is enough
ClassifiedLink_EitherMatch(link_info, m) ==
    [url |-> 1, link |-> <<1>>, depth |-> 1, status |-> "ok",
     url_matches |-> m.url_matches, content_matches |-> m.content_matches,
     is_rule_match |-> m.url_matches # {},
     is_content_match |-> m.content_matches # {},
     is_malicious |-> (m.url_matches # {}) \/ (m.content_matches # {})]

\* the record analyze_child_link builds from the two lists of match_rules
ClassifiedLink(link_info, m) ==
    [url |-> 1, link |-> <<1>>, depth |-> 1, status |-> "ok",
     url_matches |-> m.url_matches, content_matches |-> m.content_matches,
     is_rule_match |-> m.url_matches # {},
     is_content_match |-> m.content_matches # {},
     is_malicious |-> (m.url_matches # {}) /\ (m.content_matches # {})]

\* analyze_child_link builds the record of a reachable link; run_single_scan
\* adds it to results
analyze_child_link_Record(link_info, rules, ignorecase) ==
    /\ Running /\ Cardinality(results) < MaxResults
    /\ results' = results \cup
          {ClassifiedLink(link_info, match_rules(link_info, rules, ignorecase))}
    /\ UNCHANGED <<tamper_results, store, calc>>
    /\ UNCHANGED fixedInFn

\* run_single_scan appends the sentinel of a target without best_url
run_single_scan_Sentinel ==
    /\ Running /\ Cardinality(results) < MaxResults
    /\ results' = results \cup {CrawlSentinel}
    /\ UNCHANGED <<tamper_results, store, calc>>
    /\ UNCHANGED fixedInFn

NextClassify ==
    \/ \E l \in LinkInfos, r \in RuleSets, i \in BOOLEAN : analyze_child_link_Record(l, r, i)
    \/ run_single_scan_Sentinel

SpecClassify == InitFn /\ [][NextClassify]_vars

\* ------------------------------------------------------------ compare_html
\* length of a preprocessed content
MaxLen == 4
\* largest significant_changes
MaxSignificant == 2

\* tamper_sensitivity in hundredths: the default 0.85 and a laxer 0.50
Sensitivities == {85, 50}

Abs(x) == IF x < 0 THEN -x ELSE x

\* SequenceMatcher.ratio(): 2 * matches / (len(a) + len(b)), 1.0 when both
\* are empty; kept as a fraction
Ratio(matches, la, lb) ==
    IF la + lb = 0 THEN [num |-> 1, den |-> 1] ELSE [num |-> 2 * matches, den |-> la + lb]

\* variant: a similarity equal to the sensitivity already counts
Below_OrEqual(similarity, sensitivity) == similarity.num * 100 <= sensitivity * similarity.den

\* "similarity < config['tamper_sensitivity']", the sensitivity in hundredths
Below(similarity, sensitivity) ==
    similarity.num * 100 < sensitivity * similarity.den

\* variant: a difference equal to significant_changes already counts
compare_html_AtThreshold(base_length, current_length, matches, sensitivity, significant) ==
    LET similarity == Ratio(matches, base_length, current_length)
        diff_size == IF Max(base_length, current_length) = 0 THEN 0
                     ELSE Abs(base_length - current_length)
    IN  [similarity |-> similarity, diff_size |-> diff_size,
         is_tampered |-> Below(similarity, sensitivity) \/ diff_size >= significant]

\* compare_html on two preprocessed contents of the given lengths of which
\* SequenceMatcher matches the given number of characters
compare_html(base_length, current_length, matches, sensitivity, significant) ==
    LET similarity == Ratio(matches, base_length, current_length)
        diff_size == IF Max(base_length, current_length) = 0 THEN 0
                     ELSE Abs(base_length - current_length)
    IN  [similarity |-> similarity, diff_size |-> diff_size,
         is_tampered |-> Below(similarity, sensitivity) \/ diff_size > significant]

\* detect_tampering compares the baseline with the current content
detect_tampering_Compare(la, lb, m, sens, sig) ==
    /\ Running
    /\ calc' = [fn |-> "compare_html", base_length |-> la, current_length |-> lb,
                sensitivity |-> sens, significant |-> sig,
                value |-> compare_html(la, lb, m, sens, sig)]
    /\ UNCHANGED <<results, tamper_results, store>>
    /\ UNCHANGED fixedInFn

NextCompare ==
    \E la \in 0..MaxLen, lb \in 0..MaxLen, sens \in Sensitivities, sig \in 0..MaxSignificant :
        \E m \in 0..Min(la, lb) : detect_tampering_Compare(la, lb, m, sens, sig)

SpecCompare == InitFn /\ [][NextCompare]_vars

\* ------------------------------------------------------- the baseline store
\* the effective URLs of the parents and of their first-level links
BaselineUrls == [netloc : {"a.example", "child"}, path : {<<>>, <<1>>}]

\* the file name under which init_base_contents stores the baseline of a
\* first-level link: "child_{hash(url)}.html"
ChildBaselineName(u) == [prefix |-> "child", hash |-> PyHash(u)]

\* init_base_contents on one parent: a reachable parent gets its baseline
\* file and, with include_children, so does each reachable one of its
\* (at most max_children) links; calc.stored keeps the URLs stored so far
init_base_contents(u, reachable, include_children, kids) ==
    /\ Running
    /\ LET ks == IF include_children THEN kids ELSE {}
       IN  IF reachable
           THEN /\ store' = store \cup {BaselineName(u)}
                               \cup {ChildBaselineName(k) : k \in ks}
                /\ calc' = [fn |-> "init_base_contents",
                            stored |-> calc.stored \cup {u} \cup ks]
           ELSE /\ UNCHANGED store
                /\ calc' = [fn |-> "init_base_contents", stored |-> calc.stored]
    /\ UNCHANGED <<results, tamper_results>>
    /\ UNCHANGED fixedInFn

\* detect_tampering on the effective URL u: None when no file of its name
\* exists ("baseline not found"), else the verdict
detect_tampering_Lookup(u) ==
    /\ Running
    /\ calc' = [fn |-> "detect_tampering", stored |-> calc.stored, url |-> u,
                value |-> IF BaselineName(u) \in store THEN "verdict" ELSE "none"]
    /\ UNCHANGED <<results, tamper_results, store>>
    /\ UNCHANGED fixedInFn

NextBaseline ==
    \/ \E u \in BaselineUrls, r \in BOOLEAN, c \in BOOLEAN,
          kids \in SUBSET {k \in BaselineUrls : k.path = <<1>>} :
          init_base_contents(u, r, c, kids)
    \/ \E u \in BaselineUrls : detect_tampering_Lookup(u)

\* the process is at its menu: init_base_contents runs on the main thread
\* between batches, and the lookups are those of the batches that follow
SpecBaseline == Init /\ [][NextBaseline]_vars

\* ---------------------------------------------- one call of get_page_content
\* "for attempt in range(3)"
max_attempts == 3

\* calc is the call: its place, the loop variable, what it returned, and the
\* flag reads, requests and sleeps it has made so far, in order
FetchCall ==
    [fn |-> "get_page_content", pc |-> "check", attempt |-> 0, ret |-> "pending",
     status_code |-> 0, log |-> <<>>]

\* the status codes of the responses
Statuses == {200, 404}

InFetch(pc) == calc.fn = "get_page_content" /\ calc.pc = pc

Done(c, ret) == [c EXCEPT !.pc = "done", !.ret = ret]

\* variant: the last attempt is retried as well
get_page_content_Failed_OneMore(c) ==
    IF c.attempt < max_attempts THEN [c EXCEPT !.pc = "sleep"] ELSE Done(c, "none")

\* "except Exception": "if attempt < 2: time.sleep(1); continue", else None
get_page_content_Failed(c) ==
    IF c.attempt < max_attempts - 1 THEN [c EXCEPT !.pc = "sleep"] ELSE Done(c, "none")

get_page_content_Call ==
    /\ calc.fn = "none"
    /\ calc' = FetchCall
    /\ UNCHANGED <<results, tamper_results, store>>
    /\ UNCHANGED fixedInFn

\* top of the loop body: is_terminated is read under state_lock, and None
\* returned when it is set
get_page_content_ReadFlag ==
    /\ InFetch("check")
    /\ LET c == [calc EXCEPT !.log = Append(@, IF is_terminated THEN "flag_set"
                                                               ELSE "flag_clear")]
       IN  calc' = IF is_terminated THEN Done(c, "none") ELSE [c EXCEPT !.pc = "get"]
    /\ UNCHANGED <<results, tamper_results, store>>
    /\ UNCHANGED fixedInFn

\* requests.get(verify=True): a response with its status, an SSLError, or
\* another exception; raise_for_status() raises for a status from 400 on,
\* else the page is returned
get_page_content_Verified(outcome, status) ==
    /\ InFetch("get")
    /\ outcome # "ok" => status = 200
    /\ LET c == [calc EXCEPT !.log = Append(@, "get_verified")]
       IN  calc' = CASE outcome = "ok" ->
                          IF status >= 400 THEN get_page_content_Failed(c)
                          ELSE [Done(c, "page") EXCEPT !.status_code = status]
                     [] outcome = "ssl" -> [c EXCEPT !.pc = "fallback"]
                     [] outcome = "fail" -> get_page_content_Failed(c)
    /\ UNCHANGED <<results, tamper_results, store>>
    /\ UNCHANGED fixedInFn

\* "except SSLError": requests.get(verify=False); a response is returned as
\* the page with the "warning" entry whatever its status (there is no
\* raise_for_status() here), an exception is a failed attempt
get_page_content_Unverified(ok, status) ==
    /\ InFetch("fallback")
    /\ ~ok => status = 200
    /\ LET c == [calc EXCEPT !.log = Append(@, "get_unverified")]
       IN  calc' = IF ok THEN [Done(c, "page_warning") EXCEPT !.status_code = status]
                   ELSE get_page_content_Failed(c)
    /\ UNCHANGED <<results, tamper_results, store>>
    /\ UNCHANGED fixedInFn

\* time.sleep(1) and "continue"
get_page_content_Sleep ==
    /\ InFetch("sleep")
    /\ calc' = [calc EXCEPT !.log = Append(@, "sleep"), !.attempt = @ + 1,
                            !.pc = "check"]
    /\ UNCHANGED <<results, tamper_results, store>>
    /\ UNCHANGED fixedInFn

\* handle_termination sets is_terminated before or during the call
FetchSetFlag ==
    /\ ~is_terminated
    /\ is_terminated' = TRUE
    /\ UNCHANGED fan
    /\ UNCHANGED fixedInFanout

NextFetch ==
    \/ get_page_content_Call
    \/ get_page_content_ReadFlag
    \/ \E o \in {"ok", "ssl", "fail"}, st \in Statuses : get_page_content_Verified(o, st)
    \/ \E ok \in BOOLEAN, st \in Statuses : get_page_content_Unverified(ok, st)
    \/ get_page_content_Sleep
    \/ FetchSetFlag

SpecFetch == InitFn /\ [][NextFetch]_vars

\* ------------------------------------------ the records handed to the sink
\* Python's None, as the value of an entry
None == "<None>"

\* http_status / https_status of complete_and_check_url: not tried, success
\* with the status code, failed (get_page_content gave None), error (the
\* future raised)
ProbeStatus == {"not_tried", "success", "failed", "error"}

\* what complete_and_check_url returns for the URL "t": the two statuses and
\* best_url, which stays None when neither request gave a page
UrlChecks ==
    {[http_status |-> h, https_status |-> hs,
      best_url |-> IF hs = "success" THEN "https://t"
                   ELSE IF h = "success" THEN "http://t" ELSE None] :
        h \in ProbeStatus, hs \in ProbeStatus} \
    {[http_status |-> "not_tried", https_status |-> "not_tried", best_url |-> None]}

\* the entries of a results record that are not literals of a fixed type
\* (depth, the match lists and the three booleans are always set)
ScanRecord(c, parent_url, link_type, status_code) ==
    [timestamp |-> "now", parent_url |-> parent_url, original_url |-> "t",
     http_status |-> c.http_status, https_status |-> c.https_status,
     effective_url |-> c.best_url, link_type |-> link_type,
     original_link |-> "t", absolute_link |-> "t", status_code |-> status_code,
     tag_content |-> ""]

\* the entries of a tamper_results record that are not numbers or booleans
TamperRecord(c, url, base_content_time, tamper_type, status_code) ==
    [timestamp |-> "now", original_url |-> "t",
     http_status |-> c.http_status, https_status |-> c.https_status,
     effective_url |-> c.best_url, url |-> url, link_type |-> "parent",
     base_content_time |-> base_content_time, tamper_type |-> tamper_type,
     diff_description |-> "text", status_code |-> status_code]

\* "a or b"
Or(a, b) == IF a \in {None, ""} THEN b ELSE a

\* compare_html: tamper_type from the numbers of added and removed lines
tamper_type(added, removed) ==
    IF added > 0 /\ removed = 0 THEN "added"
    ELSE IF removed > 0 /\ added = 0 THEN "removed"
    ELSE IF added > 0 /\ removed > 0 THEN "modified"
    ELSE ""

Room == Cardinality(results \cup tamper_results) < MaxResults

\* run_single_scan, "if not url_check['best_url']": the record it appends
run_single_scan_Unreachable(c) ==
    /\ Room /\ c.best_url = None
    /\ results' = results \cup {ScanRecord(c, "N/A", "parent", "unreachable")}
    /\ UNCHANGED <<tamper_results, store, calc>>
    /\ UNCHANGED fixedInFn

\* analyze_child_link: the record of a link with a best_url
analyze_child_link_Result(c) ==
    /\ Room /\ c.best_url # None
    /\ results' = results \cup {ScanRecord(c, "parent", "a", "200")}
    /\ UNCHANGED <<tamper_results, store, calc>>
    /\ UNCHANGED fixedInFn

\* process_tamper_parent_url, "if not url_check['best_url']": the record
\* it returns, which run_tamper_detection appends
process_tamper_parent_url_Unreachable(c) ==
    /\ Room /\ c.best_url = None
    /\ tamper_results' = tamper_results \cup
          {TamperRecord(c, Or(c.best_url, "t"), "N/A", "unreachable", "unreachable")}
    /\ UNCHANGED <<results, store, calc>>
    /\ UNCHANGED fixedInFn

\* detect_child_tampering, "if not child_url_check['best_url']": the record
\* of the link
detect_child_tampering_Unreachable(c) ==
    /\ Room /\ c.best_url = None
    /\ tamper_results' = tamper_results \cup
          {[TamperRecord(c, Or(c.best_url, "t"), "N/A", "unreachable", "unreachable")
               EXCEPT !.link_type = "child"]}
    /\ UNCHANGED <<results, store, calc>>
    /\ UNCHANGED fixedInFn

\* detect_tampering: the verdict for a URL with a baseline
detect_tampering_Result(c, added, removed) ==
    /\ Room /\ c.best_url # None
    /\ tamper_results' = tamper_results \cup
          {[TamperRecord(c, c.best_url, "then", tamper_type(added, removed), "fetched")
               EXCEPT !.http_status = Or(@, "not_checked"),
                      !.https_status = Or(@, "not_checked")]}
    /\ UNCHANGED <<results, store, calc>>
    /\ UNCHANGED fixedInFn

NextRecords ==
    \/ \E c \in UrlChecks : run_single_scan_Unreachable(c)
    \/ \E c \in UrlChecks : analyze_child_link_Result(c)
    \/ \E c \in UrlChecks : process_tamper_parent_url_Unreachable(c)
    \/ \E c \in UrlChecks : detect_child_tampering_Unreachable(c)
    \/ \E c \in UrlChecks, added \in 0..1, removed \in 0..1 :
          detect_tampering_Result(c, added, removed)

SpecRecords == InitFn /\ [][NextRecords]_vars

\* ------------------------------------------------ extract_links_from_tags
\* elements in one parsed page
MaxElems == 2

\* a text is a sequence of pieces: a blank, a scheme with its colon, or
\* other characters
Refs ==
    {<<>>, <<" ">>, <<"x">>, <<" ", "x">>, <<"mailto:", "x">>,
     <<"javascript:", "x">>, <<"JavaScript:", "x">>}

\* the attributes of an element: none, href or src
Attrs ==
    {[a \in {} |-> <<>>]} \cup {[href |-> v] : v \in Refs} \cup {[src |-> v] : v \in Refs}

Elements == [tag : {"a", "img", "p"}, attrs : Attrs]

Soups == UNION {[1..n -> Elements] : n \in 0..MaxElems}

\* the tags looked for and the attribute read from each, in the order of the
\* dict
tags ==
    <<[tag |-> "a", attr |-> "href"], [tag |-> "script", attr |-> "src"],
      [tag |-> "img", attr |-> "src"], [tag |-> "iframe", attr |-> "src"],
      [tag |-> "link", attr |-> "href"], [tag |-> "form", attr |-> "action"]>>

\* str.strip()
RECURSIVE Strip(_)
Strip(s) ==
    IF s = <<>> THEN s
    ELSE IF s[1] = " " THEN Strip(Tail(s))
    ELSE IF s[Len(s)] = " " THEN Strip(SubSeq(s, 1, Len(s) - 1))
    ELSE s

\* str.startswith(p), for a piece p
StartsWith(s, p) == Len(s) >= 1 /\ s[1] = p

\* urljoin(base_url, link): a link with a scheme of its own is returned as it
\* is, any other is resolved against base_url
urljoin(base_url, link) ==
    IF Len(link) >= 1 /\ link[1] \in {"mailto:", "javascript:", "JavaScript:"}
    THEN link
    ELSE <<base_url>> \o link

\* variant: an empty reference is skipped, one seen before is not
Keep_NotEmpty(original_link, seen_links) == original_link # <<>>

\* "if not original_link or original_link in seen_links: continue"
Keep(original_link, seen_links) ==
    original_link # <<>> /\ original_link \notin seen_links

\* the two loops, at tag ti and element ei
RECURSIVE LinksFrom(_, _, _, _, _, _)
LinksFrom(soup, base_url, ti, ei, seen_links, links) ==
    IF ti > Len(tags) THEN links
    ELSE IF ei > Len(soup) THEN LinksFrom(soup, base_url, ti + 1, 1, seen_links, links)
    ELSE LET elem == soup[ei]
             attr == tags[ti].attr
         IN  IF elem.tag # tags[ti].tag \/ attr \notin DOMAIN elem.attrs
             THEN LinksFrom(soup, base_url, ti, ei + 1, seen_links, links)
             ELSE LET original_link == Strip(elem.attrs[attr])
                      absolute_link == urljoin(base_url, original_link)
                      seen == seen_links \cup {original_link}
                  IN  IF ~Keep(original_link, seen_links)
                      THEN LinksFrom(soup, base_url, ti, ei + 1, seen_links, links)
                      ELSE IF StartsWith(absolute_link, "mailto:")
                              \/ StartsWith(absolute_link, "javascript:")
                      THEN LinksFrom(soup, base_url, ti, ei + 1, seen, links)
                      ELSE LinksFrom(soup, base_url, ti, ei + 1, seen,
                                     Append(links, [original_link |-> original_link,
                                                    absolute_link |-> absolute_link,
                                                    tag |-> elem.tag]))

\* extract_links_from_tags(soup, base_url): the list it returns
LinkList(soup, base_url) == LinksFrom(soup, base_url, 1, 1, {}, <<>>)

\* one call, the only one of a behaviour; calc keeps the page and the list
extract_links_from_tags_Call ==
    /\ calc.fn = "none"
    /\ \E soup \in Soups, base_url \in {"http://h/"} :
          calc' = [fn |-> "extract_links_from_tags", soup |-> soup,
                   base_url |-> base_url, value |-> LinkList(soup, base_url)]
    /\ UNCHANGED <<results, tamper_results, store>>
    /\ UNCHANGED fixedInFn

NextExtract == extract_links_from_tags_Call

SpecExtract == InitFn /\ [][NextExtract]_vars

\* ------------------------------------------- the similarity of compare_html
\* characters in one content
MaxText == 3

\* contents without markup: letters and line ends
Chars == {"a", "b", "\n"}

\* what \s matches
Space == {" ", "\n"}

Texts == UNION {[1..n -> Chars] : n \in 0..MaxText}

\* re.sub(r'\s+', ' ', ...): a run of blanks and line ends becomes one blank
RECURSIVE Collapse(_)
Collapse(s) ==
    IF s = <<>> THEN s
    ELSE IF s[1] \in Space /\ Len(s) >= 2 /\ s[2] \in Space THEN Collapse(Tail(s))
    ELSE <<IF s[1] \in Space THEN " " ELSE s[1]>> \o Collapse(Tail(s))

\* preprocess_html on a content without markup: nothing to remove, blanks
\* collapsed and stripped
preprocess_html(html_content) == Strip(Collapse(html_content))

\* the blocks a[i .. i+k-1] = b[j .. j+k-1] inside a[alo..ahi] and b[blo..bhi]
Blocks(a, b, alo, ahi, blo, bhi) ==
    {c \in (alo..ahi) \X (blo..bhi) \X (1..Len(a)) :
        /\ c[1] + c[3] - 1 <= ahi
        /\ c[2] + c[3] - 1 <= bhi
        /\ SubSeq(a, c[1], c[1] + c[3] - 1) = SubSeq(b, c[2], c[2] + c[3] - 1)}

\* SequenceMatcher.find_longest_match: a longest block; of those the one
\* starting earliest in a; of those the one starting earliest in b
find_longest_match(a, b, alo, ahi, blo, bhi) ==
    CHOOSE c \in Blocks(a, b, alo, ahi, blo, bhi) :
        \A d \in Blocks(a, b, alo, ahi, blo, bhi) :
            \/ c[3] > d[3]
            \/ c[3] = d[3] /\ c[1] < d[1]
            \/ c[3] = d[3] /\ c[1] = d[1] /\ c[2] <= d[2]

\* SequenceMatcher.get_matching_blocks, summed: the longest block, then the
\* same to the left and to the right of it
RECURSIVE MatchingSize(_, _, _, _, _, _)
MatchingSize(a, b, alo, ahi, blo, bhi) ==
    IF Blocks(a, b, alo, ahi, blo, bhi) = {} THEN 0
    ELSE LET c == find_longest_match(a, b, alo, ahi, blo, bhi)
         IN  c[3] + MatchingSize(a, b, alo, c[1] - 1, blo, c[2] - 1)
                  + MatchingSize(a, b, c[1] + c[3], ahi, c[2] + c[3], bhi)

\* SequenceMatcher(None, a, b).ratio()
ratio(a, b) == Ratio(MatchingSize(a, b, 1, Len(a), 1, Len(b)), Len(a), Len(b))

\* the similarity compare_html computes for two contents
compare_html_similarity(base_content, current_content) ==
    ratio(preprocess_html(base_content), preprocess_html(current_content))

\* str.splitlines()
RECURSIVE splitlines(_)
splitlines(s) ==
    IF s = <<>> THEN <<>>
    ELSE IF \A i \in 1..Len(s) : s[i] # "\n" THEN <<s>>
    ELSE LET i == CHOOSE i \in 1..Len(s) : s[i] = "\n" /\ \A j \in 1..(i - 1) : s[j] # "\n"
         IN  <<SubSeq(s, 1, i - 1)>> \o splitlines(SubSeq(s, i + 1, Len(s)))

\* Differ().compare(a, b) on lists of lines: the lines of a outside the
\* matching blocks come out with "- ", those of b with "+ "; their numbers
Differ_compare(a, b) ==
    LET matched == MatchingSize(a, b, 1, Len(a), 1, Len(b))
    IN  [added |-> Len(b) - matched, removed |-> Len(a) - matched]

\* what compare_html returns for two contents
compare_html_Result(base_content, current_content, sensitivity, significant) ==
    LET base_clean == preprocess_html(base_content)
        current_clean == preprocess_html(current_content)
        diff == Differ_compare(splitlines(base_clean), splitlines(current_clean))
        r == compare_html(Len(base_clean), Len(current_clean),
                          MatchingSize(base_clean, current_clean,
                                       1, Len(base_clean), 1, Len(current_clean)),
                          sensitivity, significant)
    IN  [similarity |-> r.similarity, diff_size |-> r.diff_size,
         is_tampered |-> r.is_tampered,
         tamper_type |-> tamper_type(diff.added, diff.removed),
         added_lines |-> diff.added, removed_lines |-> diff.removed]

\* one comparison, the only one of a behaviour; calc keeps the contents, the
\* similarity and the whole result
compare_html_Call ==
    /\ calc.fn = "none"
    /\ \E base_content \in Texts, current_content \in Texts,
          sens \in Sensitivities \cup {100}, sig \in 0..MaxSignificant :
          calc' = [fn |-> "similarity", base_content |-> base_content,
                   current_content |-> current_content,
                   sensitivity |-> sens, significant |-> sig,
                   value |-> compare_html_similarity(base_content, current_content),
                   result |-> compare_html_Result(base_content, current_content, sens, sig)]
    /\ UNCHANGED <<results, tamper_results, store>>
    /\ UNCHANGED fixedInFn

NextSimilarity == compare_html_Call

SpecSimilarity == InitFn /\ [][NextSimilarity]_vars

\* ------------------------------------------ the older command line variant
\* URLs of one batch of the older variant
MaxLegacyUrls == 2

\* the older variant before its first batch: calc holds its global_state, the
\* position of the main thread (pc), of the signal handler (hpc) and of the
\* scan tasks, and the number of save_scan_results calls of the batch
LegacyMenu ==
    [fn |-> "legacy", pc |-> "menu", hpc |-> "none", is_terminated |-> FALSE,
     processed_urls |-> 0, total_urls |-> 0, results |-> 0, tasks |-> <<>>,
     saves |-> 0, exit_code |-> -1]

\* main() reaches its menu
legacy_main ==
    /\ calc.fn = "none"
    /\ calc' = LegacyMenu
    /\ UNCHANGED <<results, tamper_results, store>>
    /\ UNCHANGED fixedInFn

\* run_batch_scan up to the submission of its tasks
legacy_run_batch_scan(n) ==
    /\ calc.fn = "legacy" /\ calc.pc \in {"menu", "returned"} /\ calc.hpc = "none"
    /\ calc' = [calc EXCEPT !.pc = "batch", !.total_urls = n, !.processed_urls = 0,
                            !.results = 0, !.is_terminated = FALSE,
                            !.tasks = [i \in 1..n |-> "new"], !.saves = 0]
    /\ UNCHANGED <<results, tamper_results, store>>
    /\ UNCHANGED fixedInFn

\* run_single_scan reads the flag: set, it returns []; clear, it goes on to
\* fetch the page
legacy_run_single_scan_Enter(i) ==
    /\ calc.fn = "legacy" /\ calc.pc = "batch"
    /\ i \in DOMAIN calc.tasks /\ calc.tasks[i] = "new"
    /\ calc' = [calc EXCEPT !.tasks[i] = IF calc.is_terminated THEN "done" ELSE "fetch"]
    /\ UNCHANGED <<results, tamper_results, store>>
    /\ UNCHANGED fixedInFn

\* run_single_scan after get_page_content: no page, or a page that gives
\* found records; processed_urls is counted and the records are added
legacy_run_single_scan_Fetched(i, found) ==
    /\ calc.fn = "legacy" /\ calc.pc = "batch"
    /\ i \in DOMAIN calc.tasks /\ calc.tasks[i] = "fetch"
    /\ calc' = [calc EXCEPT !.tasks[i] = "done",
                            !.processed_urls = @ + 1,
                            !.results = @ + found]
    /\ UNCHANGED <<results, tamper_results, store>>
    /\ UNCHANGED fixedInFn

\* run_batch_scan from the exit of the executor to its return: the progress
\* thread is joined and the results are saved "if not is_terminated and
\* results"
legacy_run_batch_scan_End ==
    /\ calc.fn = "legacy" /\ calc.pc = "batch" /\ calc.hpc = "none"
    /\ \A i \in DOMAIN calc.tasks : calc.tasks[i] = "done"
    /\ calc.is_terminated \/ calc.processed_urls >= calc.total_urls
    /\ calc' = [calc EXCEPT !.pc = "returned",
                            !.saves = IF ~calc.is_terminated /\ calc.results > 0
                                      THEN @ + 1 ELSE @]
    /\ UNCHANGED <<results, tamper_results, store>>
    /\ UNCHANGED fixedInFn

\* handle_termination, first critical section: a second signal exits with 1,
\* the first sets the flag
legacy_handle_termination_Check ==
    /\ calc.fn = "legacy" /\ calc.pc = "batch"
    /\ calc' = IF calc.is_terminated
               THEN [calc EXCEPT !.pc = "exited", !.exit_code = 1]
               ELSE [calc EXCEPT !.is_terminated = TRUE, !.hpc = "flagged"]
    /\ UNCHANGED <<results, tamper_results, store>>
    /\ UNCHANGED fixedInFn

\* handle_termination, the rest: the results are saved "if results", then
\* os._exit(0)
legacy_handle_termination_Save ==
    /\ calc.fn = "legacy" /\ calc.pc = "batch" /\ calc.hpc = "flagged"
    /\ calc' = [calc EXCEPT !.pc = "exited", !.exit_code = 0, !.hpc = "none",
                            !.saves = IF calc.results > 0 THEN @ + 1 ELSE @]
    /\ UNCHANGED <<results, tamper_results, store>>
    /\ UNCHANGED fixedInFn

NextLegacy ==
    \/ legacy_main
    \/ \E n \in 1..MaxLegacyUrls : legacy_run_batch_scan(n)
    \/ \E i \in 1..MaxLegacyUrls : legacy_run_single_scan_Enter(i)
    \/ \E i \in 1..MaxLegacyUrls, found \in 0..1 : legacy_run_single_scan_Fetched(i, found)
    \/ legacy_run_batch_scan_End
    \/ legacy_handle_termination_Check
    \/ legacy_handle_termination_Save

SpecLegacy == InitFn /\ [][NextLegacy]_vars

\* --------------------------------------------------------- the three locks
\* The threads of a batch by the locks they take: calc holds the owner of
\* each lock, what is left of the block each thread is in (todo), and
\* whether handle_termination has been entered.  The handler runs on the
\* main thread, on top of what that thread was doing.
LockNames == {"state_lock", "log_lock", "save_lock"}
LockThreads == {"main", "worker", "progress"}

Acq(l) == [op |-> "acquire", lock |-> l]
Rel(l) == [op |-> "release", lock |-> l]

\* variant: a "with state_lock:" block that calls log() inside
with_state_lock_Logging ==
    <<Acq("state_lock"), Acq("log_lock"), Rel("log_lock"), Rel("state_lock")>>

\* a "with state_lock:" block: none of them calls log() or takes another lock
with_state_lock ==
    <<Acq("state_lock"), Rel("state_lock")>>

\* log(): "with log_lock:" around the print
log_block ==
    <<Acq("log_lock"), Rel("log_lock")>>

\* handle_termination: two "with state_lock:" blocks, two saves under
\* save_lock, os._exit(0)
handle_termination ==
    with_state_lock \o with_state_lock
    \o <<Acq("save_lock"), Rel("save_lock"), Acq("save_lock"), Rel("save_lock"),
         [op |-> "exit", lock |-> "none"]>>

\* the blocks a thread goes through: workers and the batch function lock the
\* state and log, progress_monitor only locks the state
BlocksOf(t) == IF t = "progress" THEN {with_state_lock} ELSE {with_state_lock, log_block}

LocksStart ==
    [fn |-> "locks", owner |-> [l \in LockNames |-> "free"],
     todo |-> [t \in LockThreads |-> <<>>], handler |-> FALSE, exited |-> FALSE]

\* the batch starts
LocksInit ==
    /\ calc.fn = "none"
    /\ calc' = LocksStart
    /\ UNCHANGED <<results, tamper_results, store>>
    /\ UNCHANGED fixedInFn

\* a thread reaches its next block
LocksBegin(t, b) ==
    /\ calc.fn = "locks" /\ ~calc.exited
    /\ calc.todo[t] = <<>> /\ b \in BlocksOf(t)
    /\ calc' = [calc EXCEPT !.todo[t] = b]
    /\ UNCHANGED <<results, tamper_results, store>>
    /\ UNCHANGED fixedInFn

\* threading.Lock.acquire: the thread goes on when the lock is free, whoever
\* holds it otherwise (the lock is not reentrant)
LocksAcquire(t) ==
    /\ calc.fn = "locks" /\ ~calc.exited
    /\ calc.todo[t] # <<>> /\ Head(calc.todo[t]).op = "acquire"
    /\ calc.owner[Head(calc.todo[t]).lock] = "free"
    /\ calc' = [calc EXCEPT !.owner[Head(calc.todo[t]).lock] = t,
                            !.todo[t] = Tail(@)]
    /\ UNCHANGED <<results, tamper_results, store>>
    /\ UNCHANGED fixedInFn

\* the end of a "with" block
LocksRelease(t) ==
    /\ calc.fn = "locks" /\ ~calc.exited
    /\ calc.todo[t] # <<>> /\ Head(calc.todo[t]).op = "release"
    /\ calc' = [calc EXCEPT !.owner[Head(calc.todo[t]).lock] = "free",
                            !.todo[t] = Tail(@)]
    /\ UNCHANGED <<results, tamper_results, store>>
    /\ UNCHANGED fixedInFn

\* the signal: the main thread enters handle_termination wherever it is
LocksSignal ==
    /\ calc.fn = "locks" /\ ~calc.exited /\ ~calc.handler
    /\ calc' = [calc EXCEPT !.handler = TRUE,
                            !.todo["main"] = handle_termination \o @]
    /\ UNCHANGED <<results, tamper_results, store>>
    /\ UNCHANGED fixedInFn

\* os._exit(0) at the end of the handler
LocksExit ==
    /\ calc.fn = "locks" /\ ~calc.exited
    /\ calc.todo["main"] # <<>> /\ Head(calc.todo["main"]).op = "exit"
    /\ calc' = [calc EXCEPT !.exited = TRUE]
    /\ UNCHANGED <<results, tamper_results, store>>
    /\ UNCHANGED fixedInFn

NextLocks ==
    \/ LocksInit
    \/ \E t \in LockThreads, b \in {with_state_lock, log_block} : LocksBegin(t, b)
    \/ \E t \in LockThreads : LocksAcquire(t)
    \/ \E t \in LockThreads : LocksRelease(t)
    \/ LocksSignal
    \/ LocksExit

SpecLocks == InitFn /\ [][NextLocks]_vars

TypeOK ==
    /\ is_terminated \in BOOLEAN
    /\ processed_urls \in Nat /\ total_urls \in Nat
    /\ active_threads \in Int
    /\ state_lock \in {"free", "main"}
    /\ exit_code \in {-1, 0, 1}

\* ------------------------------------------------------------- properties
\* calls of one save function since the last batch started
Calls(op) == Cardinality({k \in 1..Len(sink) : sink[k].op = op})

\* the first handler invocation has set is_terminated and has not finished
FirstHandlerPastSet ==
    /\ Len(hstack) >= 1
    /\ hstack[1] \in {"set", "lock2", "status", "save", "save_tamper", "exit"}

\* C1: when a termination signal arrives while a batch of run_batch_scan is
\* active, then by the time the process exits save_scan_results has been
\* called exactly once and save_tamper_results exactly once for that batch,
\* counting the handler's calls and the end-of-batch flush together.
\* Stated for the plainest case: one signal, and no exception has left the
\* coordinator loop.
C1_FlushExactlyOnce ==
    (exit_code # -1 /\ sigInBatch /\ signals = 1 /\ ~batch.err)
        => (Calls("scan") = 1 /\ Calls("tamper") = 1)

\* C2: a second signal that arrives while the first handler invocation is in
\* progress (is_terminated set, flush not finished) finds state_lock
\* available, so that it exits at once, and no save function is called after
\* it has arrived.
C2_SecondSignalExitsAtOnce ==
    /\ []((Running /\ Len(hstack) >= 2 /\ FirstHandlerPastSet) => state_lock = "free")
    /\ [][Len(hstack) >= 2 => sink' = sink]_vars

\* C3: every flush of the handler, and the exit after a signal, happen when
\* no started task (run_single_scan, analyze_child_link) is still running.
C3_FlushAfterTasksReturned ==
    /\ \A k \in 1..Len(sink) : sink[k].by = "handler" => sink[k].inflight = 0
    /\ (exit_code # -1 /\ signals > 0) => InFlight = 0

\* C4: the collection the handler hands to save_scan_results contains every
\* ClassifiedLink record that had been built when that flush started.
C4_HandlerFlushComplete ==
    \A k \in 1..Len(sink) :
        (sink[k].by = "handler" /\ sink[k].op = "scan")
            => sink[k].built \subseteq sink[k].content

\* C6: processed_urls never exceeds total_urls.
C6_ProcessedAtMostTotal == processed_urls <= total_urls

\* C7: a step that takes is_terminated from true to false is the state reset
\* that starts a batch; no step inside a batch clears the flag.
C7_TerminatedMonotone ==
    [][(is_terminated /\ ~is_terminated') => (mainPc = "idle" /\ mainPc' = "reset")]_vars

\* C7 witness: the flag was set inside a batch (exception path) and the batch
\* has gone on to its end-of-batch flush and is about to return
C7_Witness ==
    is_terminated /\ Running /\ mainPc = "return" /\ Len(sink) > 0

\* --------------------------------------------- properties of the crawl
\* an exception is on its way up the stack of t
Raising(t) ==
    \E k \in 1..Len(stacks[t]) : stacks[t][k].exc \/ stacks[t][k].ret.kind = "exc"

\* C5: a task that has read is_terminated as set issues no network request
\* afterwards (late records such a request), and the step in which it reads
\* the flag as set returns or leaves the loop without raising.
C5_NoRequestAfterFlagRead ==
    /\ [](~late)
    /\ [][\A t \in Threads : (saw'[t] /\ ~saw[t]) => ~Raising(t)']_vars

\* C5 witness: the analysis of the first link had requested its page, then
\* read the flag as set and has returned
C5_Witness ==
    /\ saw[LinkT(1)] /\ 1 \in fetched
    /\ linkFut[1].state = "done" /\ linkFut[1].ret.kind = "list"

\* the analyze_child_link invocations between their increment and their
\* decrement of active_threads
Counted ==
    {x \in UNION {{t} \X (1..Len(stacks[t])) : t \in Threads} :
        /\ stacks[x[1]][x[2]].fn = "analyze_child_link"
        /\ stacks[x[1]][x[2]].pc # "enter"}

\* C8: active_threads is never negative and equals the number of
\* analyze_child_link invocations that have incremented it and not yet left
\* through finally, on every exit path; an invocation that finds the flag set
\* changes nothing; with no invocation in progress it is 0.
C8_ActiveThreadsBalanced ==
    /\ active_threads >= 0
    /\ active_threads = Cardinality(Counted)

\* C8 witness: the invocation of the first level had requested its page and
\* has left with an exception, through finally
C8_Witness ==
    /\ linkFut[1].state = "done" /\ linkFut[1].ret.kind = "exc"
    /\ 1 \in fetched
    /\ active_threads = 0

\* the records run_single_scan and analyze_child_link hold, return or have
\* appended to results
CrawlRecords ==
    results
    \cup UNION {linkFut[i].ret.recs : i \in RootLinks}
    \cup UNION {stacks[x[1]][x[2]].res \cup stacks[x[1]][x[2]].ret.recs :
                  x \in UNION {{t} \X (1..Len(stacks[t])) : t \in Threads}}

\* C9: with max_depth >= 1 every record of a scan has depth <= max_depth and
\* no page is requested at a depth > max_depth.
C9_DepthBound ==
    (batch.fn = "run_batch_scan" /\ max_depth >= 1)
        => /\ \A r \in CrawlRecords : r.depth <= max_depth
           /\ \A d \in fetched : d <= max_depth

\* C9 witness: a scan below the first level has put a record of the deepest
\* level into results
C9_Witness ==
    /\ batch.fn = "run_batch_scan" /\ max_depth >= 2
    /\ \E r \in results : r.depth = max_depth

\* C10: of the links of one page, the target's as well as a page's below it,
\* at most max_child_analyze are analysed at the next level.
C10_FanoutCap == fan.started <= max_child_analyze

\* C11: every record in results has is_malicious exactly when both of its
\* match lists are non-empty; the sentinel is not malicious.
C11_MaliciousIffBothMatch ==
    \A r \in results :
        /\ r.is_malicious <=> (r.url_matches # {} /\ r.content_matches # {})
        /\ r.status = "unreachable" => ~r.is_malicious

\* C11 witness: results holds a malicious record next to a record that has
\* URL matches only and is not malicious
C11_Witness ==
    /\ \E r \in results : r.is_malicious
    /\ \E r \in results : r.url_matches # {} /\ r.content_matches = {} /\ ~r.is_malicious

\* C12: compare_html gives is_tampered exactly when the similarity is below
\* tamper_sensitivity or diff_size, the absolute difference of the two
\* lengths, exceeds significant_changes; with the similarity at or above the
\* sensitivity, is_tampered is false for diff_size <= significant_changes and
\* true from significant_changes + 1 on.
C12_TamperVerdict ==
    calc.fn = "compare_html" =>
        LET v == calc.value
            low == v.similarity.num * 100 < calc.sensitivity * v.similarity.den
        IN  /\ v.diff_size = Abs(calc.base_length - calc.current_length)
            /\ v.is_tampered <=> (low \/ v.diff_size > calc.significant)
            /\ ~low => /\ v.diff_size <= calc.significant => ~v.is_tampered
                       /\ v.diff_size >= calc.significant + 1 => v.is_tampered

\* C12 witness: similarity at or above the sensitivity, diff_size one above
\* the threshold, verdict tampered
C12_Witness ==
    /\ calc.fn = "compare_html"
    /\ calc.value.similarity.num * 100 >= calc.sensitivity * calc.value.similarity.den
    /\ calc.value.diff_size = calc.significant + 1
    /\ calc.value.is_tampered

\* C13: detect_tampering on a URL whose baseline init_base_contents has
\* stored, as a parent or as a first-level link, gives a verdict.
C13_StoredBaselineFound ==
    (calc.fn = "detect_tampering" /\ calc.url \in calc.stored)
        => calc.value = "verdict"

\* C14: a verdict in tamper_results belongs to a URL that has a baseline file;
\* detect_tampering without one returns None, nothing is appended, and its
\* caller goes on (run_single_scan to the extraction of the links,
\* analyze_child_link to the classification of the link).
C14_NoBaselineNoVerdict ==
    /\ [](\A v \in tamper_results : BaselineName(PageUrl(v.link)) \in store)
    /\ [][\A t \in Threads :
            /\ (/\ At(t, "detect_tampering", "base")
                /\ BaselineName(PageUrl(TopF(t).path)) \notin store
                /\ stacks'[t] # stacks[t])
               => /\ tamper_results' = tamper_results
                  /\ Len(stacks'[t]) = Len(stacks[t]) - 1
                  /\ TopF(t)'.ret.kind = "none" /\ ~TopF(t)'.exc
            /\ (/\ At(t, "run_single_scan", "tampered") \/ At(t, "analyze_child_link", "tampered")
                /\ TopF(t).ret.kind = "none"
                /\ stacks'[t] # stacks[t])
               => /\ tamper_results' = tamper_results
                  /\ TopF(t)'.pc = IF TopF(t).fn = "run_single_scan"
                                   THEN "submit" ELSE "classify"]_vars

\* C14 witness: with perform_tamper_check the first link has no baseline; its
\* record is in results, and the verdict of the target, which has one, is in
\* tamper_results
C14_Witness ==
    /\ batch.fn = "run_batch_scan" /\ batch.flag
    /\ BaselineName(PageUrl(<<1>>)) \notin store
    /\ \E r \in results : r.link = <<1>>
    /\ \E v \in tamper_results : v.link = <<>>

\* C15: no step of a scan or of a tamper check changes the baseline store.
C15_BaselineStoreUnchanged == [][store' = store]_vars

\* C15 witness: a scan with perform_tamper_check has finished with a verdict
\* for the first link
C15_Witness ==
    /\ batch.fn = "run_batch_scan" /\ processed_urls = 1
    /\ \E v \in tamper_results : v.link = <<1>>
    /\ BaselineName(PageUrl(<<1>>)) \in store

\* C16: for a target without scheme, when complete_and_check_url has
\* returned, best_url is the https URL if the https get_page_content gave a
\* page, the http URL if only the http one did, and absent exactly if neither
\* did.
C16_BestUrlByOutcome ==
    (~has_scheme /\ InCheck("probed"))
    => LET http == probeRes[1]
           https == probeRes[2]
           best == TopF(ScanT).ret
       IN  /\ https.kind = "page" => best = https
           /\ (https.kind # "page" /\ http.kind = "page") => best = http
           /\ best.kind = "none" <=> (http.kind # "page" /\ https.kind # "page")

\* how often the call has done e, and whether e is a request
Times(e) == Cardinality({i \in 1..Len(calc.log) : calc.log[i] = e})
IsRequest(e) == e \in {"get_verified", "get_unverified"}

\* C17: one call of get_page_content makes at most 3 attempts; each sleep
\* follows a failed request and is followed by the next attempt; after the
\* failed third attempt it returns None without another request or sleep, and
\* it returns a page or None whatever the requests raise.
C17_AtMostThreeAttempts ==
    calc.fn = "get_page_content" =>
        LET log == calc.log
            n == Len(log)
        IN  /\ Times("get_verified") <= 3
            /\ Times("flag_set") + Times("flag_clear") <= 3
            /\ Times("sleep") <= 2
            /\ \A i \in 1..n : log[i] = "sleep" =>
                  /\ i > 1 /\ IsRequest(log[i - 1])
                  /\ IF i < n THEN log[i + 1] \in {"flag_set", "flag_clear"}
                     ELSE calc.pc = "check"
            /\ (Times("get_verified") = 3 /\ calc.pc \notin {"get", "fallback"})
                  => /\ calc.pc = "done" /\ IsRequest(log[n])
                     /\ calc.ret \in {"none", "page", "page_warning"}
            /\ calc.pc = "done" <=> calc.ret # "pending"
            /\ calc.ret \in {"pending", "none", "page", "page_warning"}

\* C17 witness: three requests have failed with two sleeps between them, and
\* None is returned
C17_Witness ==
    /\ InFetch("done") /\ calc.ret = "none" /\ ~is_terminated
    /\ calc.log = <<"flag_clear", "get_verified", "sleep",
                    "flag_clear", "get_verified", "sleep",
                    "flag_clear", "get_verified">>

\* C18: one call of get_page_content makes the request with verify=False at
\* most once, and the "warning" entry is in what it returns exactly if that
\* came from this request.
C18_FallbackAtMostOnce ==
    calc.fn = "get_page_content" =>
        /\ Times("get_unverified") <= 1
        /\ calc.ret = "page_warning"
              <=> (calc.pc = "done" /\ calc.ret \notin {"none", "pending"}
                   /\ calc.log[Len(calc.log)] = "get_unverified")

\* C19: each request of get_page_content, with or without verification, comes
\* right after a read of is_terminated that gave false; a read that gives true
\* ends the call with None.
C19_FlagReadBeforeEachRequest ==
    calc.fn = "get_page_content" =>
        \A i \in 1..Len(calc.log) :
            /\ IsRequest(calc.log[i]) => (i > 1 /\ calc.log[i - 1] = "flag_clear")
            /\ calc.log[i] = "flag_set"
                  => (i = Len(calc.log) /\ calc.pc = "done" /\ calc.ret = "none")

\* C20: a target without best_url: run_single_scan appends the one sentinel
\* record (depth 0, no matches, is_malicious false) to results, increments
\* processed_urls once, returns the list of just that record, and no
\* analyze_child_link has been started.
C20_UnreachableTarget ==
    /\ [][(/\ At(ScanT, "run_single_scan", "probed")
           /\ BestPage.kind # "page"
           /\ stacks'[ScanT] # stacks[ScanT])
          => /\ CrawlSentinel \notin results
             /\ results' = results \cup {CrawlSentinel}
             /\ processed_urls' = processed_urls + 1
             /\ stacks'[ScanT] = <<TaskFuture(ListRet({CrawlSentinel}))>>]_vars
    /\ [](CrawlSentinel \in results
          => /\ results = {CrawlSentinel}
             /\ CrawlSentinel.depth = 0 /\ ~CrawlSentinel.is_malicious
             /\ CrawlSentinel.url_matches = {} /\ CrawlSentinel.content_matches = {}
             /\ processed_urls = 1
             /\ stacks[ScanT] = <<TaskFuture(ListRet({CrawlSentinel}))>>
             /\ \A i \in RootLinks : linkFut[i].state = "none"
             /\ \A t \in Threads \ {ScanT} : stacks[t] = <<>>
             /\ fetched \subseteq {0})

\* C20 witness: both probes of a target without scheme have failed and the
\* scan has returned the sentinel
C20_Witness ==
    /\ ~has_scheme /\ ~is_terminated
    /\ results = {CrawlSentinel} /\ processed_urls = 1
    /\ stacks[ScanT] = <<TaskFuture(ListRet({CrawlSentinel}))>>

\* the frames of all threads
Frames == UNION {{stacks[t][k] : k \in 1..Len(stacks[t])} : t \in Threads}

\* C21: without a termination request, an analyze_child_link invocation at a
\* depth <= max_depth that leaves without an exception has exactly one record
\* for its link, whether the probe of the link gave a page or not.
C21_OneRecordPerLink ==
    \A f \in Frames :
        (/\ f.fn = "analyze_child_link" /\ f.pc = "finally"
         /\ ~f.exc /\ f.depth <= max_depth /\ ~is_terminated)
        => Cardinality({r \in f.res : r.link = f.path}) = 1

\* C22: in a scan detect_tampering runs only with perform_tamper_check and
\* only for the target (depth 0) and the links analysed at depth 1, and no
\* verdict in tamper_results belongs to a link at depth >= 2.
C22_TamperCheckUpToDepthOne ==
    /\ \A f \in Frames :
          (f.fn = "detect_tampering" /\ batch.fn = "run_batch_scan")
          => (batch.flag /\ f.depth <= 1 /\ Len(f.path) <= 1)
    /\ \A v \in tamper_results : Len(v.link) <= 1

\* C22 witness: a scan with perform_tamper_check and max_depth 2 has a record
\* of a link at depth 2 and the verdict of a link at depth 1
C22_Witness ==
    /\ batch.fn = "run_batch_scan" /\ batch.flag /\ max_depth = 2
    /\ \E r \in results : r.depth = 2
    /\ \E v \in tamper_results : Len(v.link) = 1

\* C23: when a batch function has reset the state, processed_urls and
\* active_threads are 0, is_terminated is false, and results and
\* tamper_results are both empty, whatever batches ran before.
C23_BatchStartsClean ==
    mainPc = "reset"
    => /\ processed_urls = 0 /\ active_threads = 0 /\ ~is_terminated
       /\ results = {} /\ tamper_results = {}

\* the end-of-batch flushes of the current batch for one kind of result
BatchFlushes(op) ==
    Cardinality({k \in 1..Len(sink) : sink[k].by = "batch" /\ sink[k].op = op})

\* C24: unless a termination signal arrives, a batch that has started gets
\* back to the menu having flushed its results exactly once, whatever its
\* tasks do.
C24_BatchCompletes ==
    [](mainPc = "reset"
       => <>(\/ signals > 0
             \/ /\ mainPc = "idle"
                /\ BatchFlushes("scan") + BatchFlushes("tamper") >= 1
                /\ BatchFlushes("scan") <= 1 /\ BatchFlushes("tamper") <= 1))

\* C25: with the process back at its menu, no kind of result of the last
\* batch has been written again after the end-of-batch flush had written it.
C25_NoWriteAfterBatchFlush ==
    mainPc = "idle"
    => \A j, k \in 1..Len(sink) :
          (j < k /\ sink[j].by = "batch")
          => ~(sink[k].op = sink[j].op /\ sink[k].batch = sink[j].batch)

\* C26: the shared collections are read only under state_lock: a save made
\* while tasks are running, which iterates over results or tamper_results,
\* is made with state_lock held, so that no task can append meanwhile.
C26_SavesUnderStateLock ==
    \A k \in 1..Len(sink) :
        sink[k].inflight > 0 => "state_lock" \in sink[k].locks

\* C27: every save, of the handler and of the end of a batch, is made with
\* save_lock held.
C27_SavesUnderSaveLock ==
    \A k \in 1..Len(sink) : "save_lock" \in sink[k].locks

\* C28: in every record of results and tamper_results every entry is set
\* (a text such as "N/A" where nothing is known, never None), and
\* the tamper_type of every record of tamper_results is one of added,
\* removed, modified or none (the empty text).
C28_EveryFieldDefined ==
    /\ \A r \in results \cup tamper_results : \A f \in DOMAIN r : r[f] # None
    /\ \A r \in tamper_results : r.tamper_type \in {"added", "removed", "modified", ""}

SameRatio(x, y) == x.num * y.den = y.num * x.den

\* C30: the similarity compare_html computes is the same with the two
\* contents exchanged, and is 1.0 when the preprocessed contents are equal.
C30_SimilaritySymmetric ==
    calc.fn = "similarity" =>
        /\ SameRatio(calc.value,
                     compare_html_similarity(calc.current_content, calc.base_content))
        /\ preprocess_html(calc.base_content) = preprocess_html(calc.current_content)
              => calc.value.num = calc.value.den

\* equal preprocessed contents have similarity 1.0
IdenticalGivesOne ==
    calc.fn = "similarity"
        /\ preprocess_html(calc.base_content) = preprocess_html(calc.current_content)
    => calc.value.num = calc.value.den

\* a is b with some elements left out
RECURSIVE IsSubSeq(_, _)
IsSubSeq(a, b) ==
    IF a = <<>> THEN TRUE
    ELSE IF b = <<>> THEN FALSE
    ELSE IF a[1] = b[1] THEN IsSubSeq(Tail(a), Tail(b))
    ELSE IsSubSeq(a, Tail(b))

\* C31: compare_html gives tamper_type "added" when the current content is
\* the baseline with content inserted, "removed" when it is the baseline
\* with content deleted, and "modified" only when neither is the case,
\* for empty and non-empty preprocessed contents alike.
C31_TamperTypeByChange ==
    calc.fn = "similarity" =>
        LET base_clean == preprocess_html(calc.base_content)
            current_clean == preprocess_html(calc.current_content)
        IN  /\ base_clean # current_clean /\ IsSubSeq(base_clean, current_clean)
                  => calc.result.tamper_type = "added"
            /\ base_clean # current_clean /\ IsSubSeq(current_clean, base_clean)
                  => calc.result.tamper_type = "removed"
            /\ calc.result.tamper_type = "modified"
                  => /\ ~IsSubSeq(base_clean, current_clean)
                     /\ ~IsSubSeq(current_clean, base_clean)

C32_LegacyFlushOnce ==
    calc.fn = "legacy"
        /\ (calc.pc = "returned" \/ (calc.pc = "exited" /\ calc.exit_code = 0))
    => calc.saves = 1

\* C33: a section under state_lock holds nothing but reads and updates of
\* the shared state: no request and no save is made by a thread while it
\* holds state_lock.  (The requests are made by get_page_content, which
\* leaves its only section before it asks; the saves are the ones a thread
\* can make inside a section.)
C33_StateLockOnlyAroundState ==
    \A k \in 1..Len(sink) : "state_lock" \notin sink[k].locks

\* C34: of the analyses run_single_scan starts for the links of one page, at
\* most 5 run at the same time whatever the number of links, and the pool
\* that runs them has at least one worker when there is a link.
C34_LinkPoolBetweenOneAndFive ==
    fan.pc = "pool" =>
        /\ fan.running <= 5
        /\ fan.handed > 0 => fan.workers >= 1
        /\ fan.handed > fan.taken /\ fan.running = 0 => ENABLED LinkPoolRun

\* C34 witness: a page with more than fifteen links has five analyses running
\* and links still waiting
C34_Witness ==
    /\ fan.pc = "pool" /\ fan.nl > 15
    /\ fan.running = 5 /\ fan.taken < fan.handed

\* C35: detect_tampering called by the crawler (run_single_scan,
\* analyze_child_link) with the content of the page already fetched makes no
\* request of its own, whatever that content is, the empty text included;
\* only the tamper tasks, which pass no content, have it fetch the page.
C35_NoRequestWithContentSupplied ==
    \A t \in Threads : \A k \in 2..Len(stacks[t]) :
        (/\ stacks[t][k].fn = "detect_tampering"
         /\ stacks[t][k - 1].fn \in {"run_single_scan", "analyze_child_link"})
        => stacks[t][k].pc # "refetched"

\* C36: a signal delivered while the batch function on the main thread is
\* inside a "with state_lock:" (the test in the as_completed loop, the
\* end-of-batch saves) still gets the handler to its exit: the handler does
\* not wait for state_lock for ever.
C36_HandlerGetsStateLock ==
    (/\ Len(hstack) = 1 /\ Top = "lock1" /\ state_lock = "main"
     /\ mainPc \in {"check", "flush", "flushed"}) ~> (exit_code # -1)

\* the locks a thread holds
HeldBy(t) == {l \in LockNames : calc.owner[l] = t}

\* the thread is at an acquire of a lock that is taken
WaitsFor(t, l) ==
    /\ calc.todo[t] # <<>>
    /\ Head(calc.todo[t]) = Acq(l)
    /\ calc.owner[l] # "free"

\* no group of threads in which each waits for a lock another of the group
\* holds
NoWaitCycle ==
    \A S \in SUBSET LockThreads :
        S # {} => \E t \in S : ~\E l \in LockNames :
                                  WaitsFor(t, l) /\ calc.owner[l] \in S \ {t}

\* C37 as stated: no thread of a batch waits for one of the three locks while
\* it holds another of them, and no cycle of lock waits between threads is
\* reached.
C37_NoLockHeldWhileWaiting ==
    calc.fn = "locks" =>
        /\ \A t \in LockThreads, l \in LockNames :
              WaitsFor(t, l) => HeldBy(t) \subseteq {l}
        /\ NoWaitCycle

\* C37 amended: a thread waits for a lock while holding another only when it
\* is the main thread inside handle_termination, entered in the middle of
\* log(), and then the lock it holds is log_lock; no cycle of lock waits
\* between threads is reached.
C37_OnlyHandlerNestsUnderLogLock ==
    calc.fn = "locks" =>
        /\ \A t \in LockThreads, l \in LockNames :
              WaitsFor(t, l) /\ ~(HeldBy(t) \subseteq {l})
                  => t = "main" /\ calc.handler /\ HeldBy(t) = {"log_lock"}
        /\ NoWaitCycle

\* C37 witness: the handler, entered while the main thread was in log(),
\* waits for state_lock, which a worker holds, with log_lock held
C37_Witness ==
    /\ calc.fn = "locks" /\ calc.handler
    /\ WaitsFor("main", "state_lock")
    /\ calc.owner["state_lock"] = "worker"
    /\ HeldBy("main") = {"log_lock"}

\* C38: a page get_page_content returns, from the verified request or from
\* the request without certificate verification, has a status code below 400.
C38_ReturnedStatusBelow400 ==
    calc.fn = "get_page_content" /\ calc.ret \in {"page", "page_warning"}
        => calc.status_code < 400

\* C40: the "unreachable" record of a target is appended only after its
\* probes failed at network level: a request for the target was issued. A
\* probe that returned None because is_terminated was set does not lead to
\* the record.
C40_SentinelOnlyAfterFailedRequest ==
    (CrawlSentinel \in results \/ Unreachable(1, <<>>) \in tamper_results)
        => 0 \in fetched

====
